---- MODULE Spec2Model ----
(***************************************************************************)
(* Model of the stock-tracker server routes: the admin write handlers over *)
(* the investors document, the portfolio valuation of GET /api/portfolio   *)
(* and the history fallback chain of GET /api/history.                     *)
(*                                                                         *)
(* Strings are sequences of one-character strings.  JavaScript numbers are *)
(* integers in the admin routes and exact rationals in the valuation.      *)
(***************************************************************************)
EXTENDS Integers, Sequences, FiniteSets, TLC

VARIABLES
    store,      \* the investors collection: [exists, investors]
    today,      \* the server's current date (new Date().toISOString() day)
    last,       \* the last request handled and its response
    pf,         \* GET /api/portfolio: its inputs and its response
    hs,         \* GET /api/history: the state of one request
    rt,         \* one call of a stateless route or of a view function
    race,       \* admin writes in flight between their read and their write
    sess        \* the admin session: the clock, the browser's cookies

vars == <<store, today, last, pf, hs, rt, race, sess>>

\* ------------------------------------------------------------------ bounds

MaxInvestors == 2
MaxAllocations == 1
MaxDay == 2
MaxTime == 2
MaxValue == 2
MaxItems == 10

\* the instants of one day
DayLen == 3

\* ----------------------------------------------------------------- strings

Chars == {"a", "A", " ", "-"}

IsSpace(c) == c = " "

\* String.prototype.toLowerCase / toUpperCase, one character
LowerChar(c) == IF c = "A" THEN "a" ELSE c
UpperChar(c) == IF c = "a" THEN "A" ELSE c

ToLowerCase(s) == [i \in 1..Len(s) |-> LowerChar(s[i])]
ToUpperCase(s) == [i \in 1..Len(s) |-> UpperChar(s[i])]

RECURSIVE TrimStart(_)
TrimStart(s) ==
    IF s # <<>> /\ IsSpace(Head(s)) THEN TrimStart(Tail(s)) ELSE s

RECURSIVE TrimEnd(_)
TrimEnd(s) ==
    IF s # <<>> /\ IsSpace(s[Len(s)])
    THEN TrimEnd(SubSeq(s, 1, Len(s) - 1))
    ELSE s

\* String.prototype.trim
Trim(s) == TrimEnd(TrimStart(s))

\* s.replace(/\s+/g, "-"): every maximal run of whitespace becomes one hyphen
\* a plausible slip: every whitespace character becomes a hyphen
ReplaceEachWhitespace(s) ==
    [i \in 1..Len(s) |-> IF IsSpace(s[i]) THEN "-" ELSE s[i]]

RECURSIVE ReplaceWhitespaceRuns(_)
ReplaceWhitespaceRuns(s) ==
    IF s = <<>> THEN <<>>
    ELSE IF IsSpace(Head(s))
         THEN <<"-">> \o ReplaceWhitespaceRuns(TrimStart(s))
         ELSE <<Head(s)>> \o ReplaceWhitespaceRuns(Tail(s))

slugify(name) == ReplaceWhitespaceRuns(ToLowerCase(Trim(name)))

\* --------------------------------------------------------------- admin gate

\* the cookie name `${ADMIN_COOKIE_PREFIX}${YYYY-MM-DD}` of a day
TodayKey(day) == <<"admin_auth_", day>>

\* the cookie the superseded login route sets: "admin_auth", no date
LegacyKey == <<"admin_auth", 0>>

CookieNames == {TodayKey(d) : d \in 1..MaxDay} \cup {LegacyKey}

\* a plausible slip: any admin cookie passes, whatever its date
isAdminRequestAnyDay(cookies, day) == cookies # {}

isAdminRequest(cookies, day) == TodayKey(day) \in cookies

\* requireAdmin returns the 401 response (TRUE here) or null (FALSE)
requireAdmin(cookies, day) == ~isAdminRequest(cookies, day)

\* --------------------------------------------------------------- the store

\* getInvestmentsDoc: the document read, inserting { investors: [] } when the
\* collection holds none
getInvestmentsDoc(s) ==
    IF s.exists THEN s ELSE [exists |-> TRUE, investors |-> <<>>]

\* Array.prototype.findIndex / find: the first of the indexes whose element
\* matches, with indexes counted from 1 and -1 for none
FirstIndex(matching) ==
    IF matching = {} THEN -1
    ELSE CHOOSE i \in matching : \A j \in matching : i <= j

findInvestorIndex(investors, slug) ==
    IF slug = <<>> THEN -1
    ELSE LET target == ToLowerCase(slug)
             Match(inv) ==
                 LET invName == ToLowerCase(Trim(inv.name))
                 IN  /\ invName # <<>>
                     /\ (slugify(invName) = target \/ invName = target)
         IN  FirstIndex({i \in DOMAIN investors : Match(investors[i])})

\* ------------------------------------------------------------ JSON values

\* a JSON body field: absent, null, a number, a numeric string, any other text
Undefined == [k |-> "undefined", n |-> 0]
Null == [k |-> "null", n |-> 0]
Num(n) == [k |-> "number", n |-> n]
NumericString(n) == [k |-> "numeric-string", n |-> n]
Text == [k |-> "text", n |-> 0]

IsNullish(v) == v.k \in {"undefined", "null"}

\* a ?? b
Coalesce(a, b) == IF IsNullish(a) THEN b ELSE a

\* normalizeNumber: Number(value) when finite, else null; Number(null) is 0,
\* Number(undefined) and Number of a non-numeric text are NaN
normalizeNumber(v) ==
    CASE v.k = "number" -> Num(v.n)
      [] v.k = "numeric-string" -> Num(v.n)
      [] v.k = "null" -> Num(0)
      [] OTHER -> Null

\* ------------------------------------------------------- the quote provider

\* what the quote endpoint answers for a symbol at the time of a request is
\* [apiKey, net, c]: whether FINNHUB_API_KEY is set, whether fetch succeeds
\* ("ok"), answers non-2xx ("notOk") or throws, and the c of the body
validateSymbol(p) ==
    /\ p.apiKey
    /\ p.net = "ok"
    /\ p.c.k = "number"
    /\ p.c.n > 0

\* ---------------------------------------------------------------- responses

\* the last request (its cookies and, once the gate let it through and its body
\* was read, the name and the allocation facts it carried), whether a database
\* call threw during it, and the response (status, slug)
Response(op, cookies, dbThrew, status, slug, name) ==
    [op |-> op, cookies |-> cookies, dbThrew |-> dbThrew, status |-> status,
     slug |-> slug, name |-> name,
     setsSymbol |-> FALSE, symbolOk |-> FALSE, nonPositive |-> FALSE]

AllocationResponse(op, cookies, dbThrew, status, setsSymbol, symbolOk, nonPositive) ==
    [op |-> op, cookies |-> cookies, dbThrew |-> dbThrew, status |-> status,
     slug |-> <<>>, name |-> <<>>,
     setsSymbol |-> setsSymbol, symbolOk |-> symbolOk,
     nonPositive |-> nonPositive]

\* whether a JSON field is a number (or numeric text, or null) that is <= 0
IsNonPositive(v) == normalizeNumber(v).k = "number" /\ normalizeNumber(v).n <= 0

\* whether a body carries a non-positive amount or share count
CarriesNonPositive(body) ==
    \/ IsNonPositive(Coalesce(body.invested, body.amount))
    \/ IsNonPositive(body.shares)

DbOutcomes == {"ok", "readThrows", "writeThrows"}

\* new Date().toISOString() on a day
NowIso(day) == <<"now", ToString(day)>>

LowerNames(investors) == {ToLowerCase(investors[i].name) : i \in DOMAIN investors}

\* ------------------------------------------------- POST /api/admin/investors

\* a plausible slip: the duplicate check compares the names as written
CreateDuplicateExact(investors, name) ==
    \E i \in DOMAIN investors : investors[i].name = name

CreateDuplicate(investors, name) ==
    \E i \in DOMAIN investors : ToLowerCase(investors[i].name) = ToLowerCase(name)

CreateInvestor(cookies, bodyName, db) ==
    LET name == Trim(bodyName)
        doc == getInvestmentsDoc(store)
    IN  /\ UNCHANGED <<today, pf, hs, rt, race, sess>>
        /\ IF requireAdmin(cookies, today)
           THEN /\ last' = Response("createInvestor", cookies, FALSE, 401, <<>>, <<>>)
                /\ store' = store
           ELSE IF name = <<>>
           THEN /\ last' = Response("createInvestor", cookies, FALSE, 400, <<>>, bodyName)
                /\ store' = store
           ELSE IF db = "readThrows"
           THEN /\ last' = Response("createInvestor", cookies, TRUE, 500, <<>>, bodyName)
                /\ store' = store
           ELSE IF CreateDuplicate(doc.investors, name)
           THEN /\ last' = Response("createInvestor", cookies, FALSE, 409, <<>>, bodyName)
                /\ store' = doc
           ELSE IF db = "writeThrows"
           THEN /\ last' = Response("createInvestor", cookies, TRUE, 500, <<>>, bodyName)
                /\ store' = doc
           ELSE /\ Len(doc.investors) < MaxInvestors
                /\ last' = Response("createInvestor", cookies, FALSE, 200, slugify(name), bodyName)
                /\ store' = [doc EXCEPT !.investors =
                                Append(@, [name |-> name, allocations |-> <<>>])]

\* ------------------------------------------ PATCH /api/admin/investors/:slug

\* a plausible slip: the investor being renamed counts as a holder of the name
RenameCollisionAny(investors, targetIndex, name) ==
    \E i \in DOMAIN investors :
        ToLowerCase(investors[i].name) = ToLowerCase(name)

RenameCollision(investors, targetIndex, name) ==
    \E i \in DOMAIN investors :
        i # targetIndex /\ ToLowerCase(investors[i].name) = ToLowerCase(name)

RenameInvestor(cookies, slug, bodyName, db) ==
    LET name == Trim(bodyName)
        doc == getInvestmentsDoc(store)
        targetIndex == findInvestorIndex(doc.investors, slug)
    IN  /\ UNCHANGED <<today, pf, hs, rt, race, sess>>
        /\ IF requireAdmin(cookies, today)
           THEN /\ last' = Response("renameInvestor", cookies, FALSE, 401, <<>>, <<>>)
                /\ store' = store
           ELSE IF name = <<>>
           THEN /\ last' = Response("renameInvestor", cookies, FALSE, 400, <<>>, bodyName)
                /\ store' = store
           ELSE IF db = "readThrows"
           THEN /\ last' = Response("renameInvestor", cookies, TRUE, 500, <<>>, bodyName)
                /\ store' = store
           ELSE IF targetIndex = -1
           THEN /\ last' = Response("renameInvestor", cookies, FALSE, 404, <<>>, bodyName)
                /\ store' = doc
           ELSE IF RenameCollision(doc.investors, targetIndex, name)
           THEN /\ last' = Response("renameInvestor", cookies, FALSE, 409, <<>>, bodyName)
                /\ store' = doc
           ELSE IF db = "writeThrows"
           THEN /\ last' = Response("renameInvestor", cookies, TRUE, 500, <<>>, bodyName)
                /\ store' = doc
           ELSE /\ last' = Response("renameInvestor", cookies, FALSE, 200, slugify(name), bodyName)
                /\ store' = [doc EXCEPT !.investors[targetIndex].name = name]

\* ----------------------------------------- DELETE /api/admin/investors/:slug

\* Array.prototype.filter((_, idx) => idx !== targetIndex)
RemoveAt(seq, index) ==
    SubSeq(seq, 1, index - 1) \o SubSeq(seq, index + 1, Len(seq))

DeleteInvestor(cookies, slug, db) ==
    LET doc == getInvestmentsDoc(store)
        targetIndex == findInvestorIndex(doc.investors, slug)
    IN  /\ UNCHANGED <<today, pf, hs, rt, race, sess>>
        /\ IF requireAdmin(cookies, today)
           THEN /\ last' = Response("deleteInvestor", cookies, FALSE, 401, <<>>, <<>>)
                /\ store' = store
           ELSE IF db = "readThrows"
           THEN /\ last' = Response("deleteInvestor", cookies, TRUE, 500, <<>>, <<>>)
                /\ store' = store
           ELSE IF targetIndex = -1
           THEN /\ last' = Response("deleteInvestor", cookies, FALSE, 404, <<>>, <<>>)
                /\ store' = doc
           ELSE IF db = "writeThrows"
           THEN /\ last' = Response("deleteInvestor", cookies, TRUE, 500, <<>>, <<>>)
                /\ store' = doc
           ELSE /\ last' = Response("deleteInvestor", cookies, FALSE, 200, <<>>, <<>>)
                /\ store' = [doc EXCEPT !.investors = RemoveAt(@, targetIndex)]

\* ------------------------- /api/admin/investors/:slug/allocations (the body)

\* the fields a request body carries; symbol and dateInvested are <<>> when
\* absent or not a string, id is 0 when absent or not a string
AllocationBody(symbol, invested, amount, shares, dateInvested, id, allocationIndex) ==
    [symbol |-> symbol, invested |-> invested, amount |-> amount,
     shares |-> shares, dateInvested |-> dateInvested, id |-> id,
     allocationIndex |-> allocationIndex]

FindAllocationById(allocations, id) ==
    LET Match(a) == a.id = id
    IN  FirstIndex({i \in DOMAIN allocations : Match(allocations[i])})

\* a plausible slip: the id is not looked at, only the position
findAllocationIndexByPosition(allocations, id, index) ==
    IF index.k = "number" /\ index.n >= 0 /\ index.n < Len(allocations)
    THEN index.n + 1
    ELSE -1

\* findAllocationIndex(allocations, id, index): by id when one matches, else by
\* the position given (JavaScript counts it from 0), else -1
findAllocationIndex(allocations, id, index) ==
    LET byId == IF id # 0 THEN FindAllocationById(allocations, id) ELSE -1
    IN  IF byId # -1 THEN byId
        ELSE IF index.k = "number" /\ index.n >= 0 /\ index.n < Len(allocations)
        THEN index.n + 1
        ELSE -1

AllocationCount(investors) ==
    LET RECURSIVE Sum(_)
        Sum(i) == IF i = 0 THEN 0 ELSE Len(investors[i].allocations) + Sum(i - 1)
    IN  Sum(Len(investors))

\* ---------------------------- POST /api/admin/investors/:slug/allocations

\* the ids randomUUID() can return
IdSpace == 1..(MaxAllocations + 1)

UsedIds(investors) ==
    UNION {{investors[i].allocations[j].id : j \in DOMAIN investors[i].allocations} :
              i \in DOMAIN investors} \ {0}

AddInvalid(symbol, invested, shares) ==
    \/ symbol = <<>>
    \/ invested.k = "null" \/ invested.n <= 0
    \/ shares.k = "null" \/ shares.n <= 0

AddAllocation(cookies, slug, body, provider, db) ==
    LET symbol == ToUpperCase(Trim(body.symbol))
        invested == normalizeNumber(Coalesce(body.invested, body.amount))
        shares == normalizeNumber(body.shares)
        dateInvested ==
            IF body.dateInvested # <<>> THEN body.dateInvested ELSE NowIso(today)
        isValidSymbol == validateSymbol(provider)
        doc == getInvestmentsDoc(store)
        investorIndex == findInvestorIndex(doc.investors, slug)
        allocation(uuid) == [id |-> uuid, symbol |-> symbol,
                             invested |-> invested.n, shares |-> shares.n,
                             dateInvested |-> dateInvested]
        Unauthorized ==
            AllocationResponse("addAllocation", cookies, FALSE, 401,
                               FALSE, FALSE, FALSE)
        Answer(status) ==
            AllocationResponse("addAllocation", cookies, status = 500, status,
                               symbol # <<>>, isValidSymbol,
                               CarriesNonPositive(body))
    IN  /\ UNCHANGED <<today, pf, hs, rt, race, sess>>
        /\ IF requireAdmin(cookies, today)
           THEN /\ last' = Unauthorized
                /\ store' = store
           ELSE IF AddInvalid(symbol, invested, shares)
           THEN /\ last' = Answer(400)
                /\ store' = store
           ELSE IF ~isValidSymbol
           THEN /\ last' = Answer(400)
                /\ store' = store
           ELSE IF db = "readThrows"
           THEN /\ last' = Answer(500)
                /\ store' = store
           ELSE IF investorIndex = -1
           THEN /\ last' = Answer(404)
                /\ store' = doc
           ELSE /\ AllocationCount(doc.investors) < MaxAllocations
                /\ IF db = "writeThrows"
                   THEN /\ last' = Answer(500)
                        /\ store' = doc
                   ELSE /\ last' = Answer(200)
                        /\ \E uuid \in IdSpace \ UsedIds(doc.investors) :
                               store' = [doc EXCEPT
                                   !.investors[investorIndex].allocations =
                                       Append(@, allocation(uuid))]

\* --------------------------- PATCH /api/admin/investors/:slug/allocations

\* the allocation after the edits of the body are applied to it
EditedAllocation(target, body, uuid) ==
    LET symbol == ToUpperCase(Trim(body.symbol))
        invested == Coalesce(body.invested, body.amount)
        invNum == normalizeNumber(invested)
        shNum == normalizeNumber(body.shares)
    IN  [id |-> IF target.id = 0 THEN uuid ELSE target.id,
         symbol |-> IF symbol # <<>> THEN symbol ELSE target.symbol,
         invested |->
             IF ~IsNullish(invested) /\ invNum.k = "number"
             THEN invNum.n ELSE target.invested,
         shares |->
             IF ~IsNullish(body.shares) /\ shNum.k = "number"
             THEN shNum.n ELSE target.shares,
         dateInvested |->
             IF Trim(body.dateInvested) # <<>>
             THEN body.dateInvested ELSE target.dateInvested]

EditAllocation(cookies, slug, body, provider, db) ==
    LET doc == getInvestmentsDoc(store)
        investorIndex == findInvestorIndex(doc.investors, slug)
        allocations == doc.investors[investorIndex].allocations
        targetIndex ==
            findAllocationIndex(allocations, body.id,
                                normalizeNumber(body.allocationIndex))
        target == allocations[targetIndex]
        symbol == ToUpperCase(Trim(body.symbol))
        changesSymbol ==
            /\ symbol # <<>>
            /\ investorIndex # -1
            /\ targetIndex # -1
            /\ symbol # target.symbol
        Unauthorized ==
            AllocationResponse("editAllocation", cookies, FALSE, 401,
                               FALSE, FALSE, FALSE)
        Answer(status) ==
            AllocationResponse("editAllocation", cookies, status = 500, status,
                               changesSymbol, validateSymbol(provider),
                               CarriesNonPositive(body))
    IN  /\ UNCHANGED <<today, pf, hs, rt, race, sess>>
        /\ IF requireAdmin(cookies, today)
           THEN /\ last' = Unauthorized
                /\ store' = store
           ELSE IF db = "readThrows"
           THEN /\ last' = Answer(500)
                /\ store' = store
           ELSE IF investorIndex = -1
           THEN /\ last' = Answer(404)
                /\ store' = doc
           ELSE IF targetIndex = -1
           THEN /\ last' = Answer(404)
                /\ store' = doc
           ELSE IF db = "writeThrows"
           THEN /\ last' = Answer(500)
                /\ store' = doc
           ELSE /\ last' = Answer(200)
                /\ \E uuid \in IF target.id = 0
                                THEN IdSpace \ UsedIds(doc.investors)
                                ELSE {target.id} :
                       store' = [doc EXCEPT
                           !.investors[investorIndex].allocations[targetIndex] =
                               EditedAllocation(target, body, uuid)]

\* -------------------------- DELETE /api/admin/investors/:slug/allocations

DeleteAllocation(cookies, slug, body, db) ==
    LET doc == getInvestmentsDoc(store)
        investorIndex == findInvestorIndex(doc.investors, slug)
        allocations == doc.investors[investorIndex].allocations
        targetIndex ==
            findAllocationIndex(allocations, body.id,
                                normalizeNumber(body.allocationIndex))
        Unauthorized ==
            AllocationResponse("deleteAllocation", cookies, FALSE, 401,
                               FALSE, FALSE, FALSE)
        Answer(status) ==
            AllocationResponse("deleteAllocation", cookies, status = 500, status,
                               FALSE, FALSE, FALSE)
    IN  /\ UNCHANGED <<today, pf, hs, rt, race, sess>>
        /\ IF requireAdmin(cookies, today)
           THEN /\ last' = Unauthorized
                /\ store' = store
           ELSE IF db = "readThrows"
           THEN /\ last' = Answer(500)
                /\ store' = store
           ELSE IF investorIndex = -1
           THEN /\ last' = Answer(404)
                /\ store' = doc
           ELSE IF targetIndex = -1
           THEN /\ last' = Answer(404)
                /\ store' = doc
           ELSE IF db = "writeThrows"
           THEN /\ last' = Answer(500)
                /\ store' = doc
           ELSE /\ last' = Answer(200)
                /\ store' = [doc EXCEPT
                       !.investors[investorIndex].allocations =
                           RemoveAt(@, targetIndex)]

\* the server's date moves on to the next day
AdvanceDay ==
    /\ today < MaxDay
    /\ today' = today + 1
    /\ last' = Response("advanceDay", {}, FALSE, 0, <<>>, <<>>)
    /\ UNCHANGED <<store, pf, hs, rt, race, sess>>

\* ------------------------------------- admin writes, one await at a time

\* a write request is [op, cookies, name, slug]; the investors array it
\* builds from the array of the document it read: the create appends, the
\* rename sets investors[targetIndex].name, the delete filters the index out
BuiltInvestors(request, investors) ==
    IF request.op = "createInvestor"
    THEN Append(investors, [name |-> Trim(request.name), allocations |-> <<>>])
    ELSE LET targetIndex == findInvestorIndex(investors, request.slug)
         IN  IF targetIndex = -1 THEN investors
             ELSE IF request.op = "renameInvestor"
             THEN [investors EXCEPT ![targetIndex].name = Trim(request.name)]
             ELSE RemoveAt(investors, targetIndex)

\* the status the handler answers before it writes, 200 when it goes on to
\* updateOne
StatusAfterRead(request, investors) ==
    IF request.op = "createInvestor"
    THEN IF CreateDuplicate(investors, Trim(request.name)) THEN 409 ELSE 200
    ELSE LET targetIndex == findInvestorIndex(investors, request.slug)
         IN  IF targetIndex = -1 THEN 404
             ELSE IF /\ request.op = "renameInvestor"
                     /\ RenameCollision(investors, targetIndex,
                                        Trim(request.name))
             THEN 409
             ELSE 200

\* a plausible slip: the change is applied to the array the document holds
\* when the write arrives
WrittenFromCurrent(read, current) == current

\* $set: { investors: ... } replaces the array by one built from the array
\* read at getInvestmentsDoc, whatever the document holds by now
WrittenFrom(read, current) == read

\* the handler up to the end of await getInvestmentsDoc(): the gate, the body,
\* the read of the document and the answers given without a write
WriteRead(p) ==
    /\ race.phase = "running"
    /\ race.proc[p].pc = "received"
    /\ LET request == race.request[p]
           doc == getInvestmentsDoc(store)
           status == IF requireAdmin(request.cookies, today) THEN 401
                     ELSE IF request.op \in {"createInvestor", "renameInvestor"}
                             /\ Trim(request.name) = <<>> THEN 400
                     ELSE StatusAfterRead(request, doc.investors)
           hasRead == status \notin {400, 401}
       IN  /\ race' = [race EXCEPT
                          !.proc[p] = [pc |-> IF status = 200 THEN "read"
                                              ELSE "done",
                                       read |-> IF hasRead THEN doc.investors
                                                ELSE <<>>,
                                       status |-> IF status = 200 THEN 0
                                                  ELSE status],
                          !.order = IF hasRead THEN Append(@, <<p, "read">>)
                                    ELSE @]
           /\ store' = IF hasRead THEN doc ELSE store
    /\ UNCHANGED <<today, last, pf, hs, rt, sess>>

\* await collection.updateOne(...) and the answer behind it
WriteUpdate(p) ==
    /\ race.phase = "running"
    /\ race.proc[p].pc = "read"
    /\ store' = [store EXCEPT !.investors =
                    BuiltInvestors(race.request[p],
                                   WrittenFrom(race.proc[p].read, @))]
    /\ race' = [race EXCEPT !.proc[p].pc = "done",
                            !.proc[p].status = 200,
                            !.order = Append(@, <<p, "write">>)]
    /\ UNCHANGED <<today, last, pf, hs, rt, sess>>

\* ------------------------------------------- login, logout and the gate

\* new Date().toISOString().split("T")[0]: the UTC date of an instant
UtcDay(clock) == (clock \div DayLen) + 1

\* the date of an instant on the server's clock, offset instants from UTC
LocalDay(clock, offset) == ((clock + offset + DayLen) \div DayLen)

\* expires.setHours(23, 59, 59, 999): the last instant of the server-local
\* day of the instant
EndOfLocalDay(clock, offset) ==
    LocalDay(clock, offset) * DayLen - offset - 1

\* the cookies a browser sends: those of its jar not yet expired
SentCookies(jar, clock) == {c.name : c \in {x \in jar : clock <= x.expires}}

\* response.cookies.set: the cookie of that name is replaced; one that is
\* already expired is dropped
SetCookie(jar, cookie, clock) ==
    {c \in jar : c.name # cookie.name}
    \cup (IF clock <= cookie.expires THEN {cookie} ELSE {})

\* POST /api/admin/login
Login(password) ==
    /\ sess.phase = "running"
    /\ IF password # "ADMIN_PASSWORD"
       THEN sess' = [sess EXCEPT
                        !.last = [op |-> "login", at |-> sess.clock,
                                  matched |-> FALSE, status |-> 401,
                                  cookies |-> {}, setCookie |-> {}]]
       ELSE LET cookie == [name |-> TodayKey(UtcDay(sess.clock)),
                           expires |-> EndOfLocalDay(sess.clock, sess.offset)]
            IN  sess' = [sess EXCEPT
                            !.jar = SetCookie(@, cookie, sess.clock),
                            !.issued = {[name |-> cookie.name,
                                         at |-> sess.clock]},
                            !.loggedOut = FALSE,
                            !.last = [op |-> "login", at |-> sess.clock,
                                      matched |-> TRUE, status |-> 200,
                                      cookies |-> {}, setCookie |-> {cookie}]]
    /\ UNCHANGED <<store, today, last, pf, hs, rt, race>>

\* POST /api/admin/logout: today's cookie is set empty with expires at the
\* epoch
Logout ==
    /\ sess.phase = "running"
    /\ LET cookie == [name |-> TodayKey(UtcDay(sess.clock)), expires |-> -1]
       IN  sess' = [sess EXCEPT
                       !.jar = SetCookie(@, cookie, sess.clock),
                       !.loggedOut = TRUE,
                       !.last = [op |-> "logout", at |-> sess.clock,
                                 matched |-> FALSE, status |-> 200,
                                 cookies |-> {}, setCookie |-> {cookie}]]
    /\ UNCHANGED <<store, today, last, pf, hs, rt, race>>

\* the gate at the head of every admin write, for a request of the browser
\* (the cookies of its jar) or of a client that presents the issued token
GatedWrite(client) ==
    /\ sess.phase = "running"
    /\ LET cookies == IF client = "browser"
                      THEN SentCookies(sess.jar, sess.clock)
                      ELSE {t.name : t \in sess.issued}
       IN  sess' = [sess EXCEPT
                       !.last = [op |-> client, at |-> sess.clock,
                                 matched |-> FALSE,
                                 status |-> IF requireAdmin(cookies,
                                                            UtcDay(sess.clock))
                                            THEN 401 ELSE 200,
                                 cookies |-> cookies, setCookie |-> {}]]
    /\ UNCHANGED <<store, today, last, pf, hs, rt, race>>

\* time passes
Tick ==
    /\ sess.phase = "running"
    /\ sess.clock < DayLen * (MaxDay + 1) - 1
    /\ sess' = [sess EXCEPT !.clock = @ + 1]
    /\ today' = UtcDay(sess.clock + 1)
    /\ UNCHANGED <<store, last, pf, hs, rt, race>>

\* ------------------------------------------------ numbers of the valuation

\* A JavaScript number of the valuation is <<n, d>>: the rational n / d in
\* lowest terms with d > 0, or a non-finite value with d = 0 (Infinity is
\* <<1, 0>>, -Infinity <<-1, 0>>, NaN <<0, 0>>).  null and undefined are <<>>.

Nothing == <<>>

Abs(i) == IF i < 0 THEN -i ELSE i
Sign(i) == IF i > 0 THEN 1 ELSE IF i < 0 THEN -1 ELSE 0

RECURSIVE Gcd(_, _)
Gcd(a, b) == IF b = 0 THEN a ELSE Gcd(b, a % b)

Rat(n, d) ==
    IF d = 0 THEN <<Sign(n), 0>>
    ELSE LET g == Gcd(Abs(n), Abs(d))
         IN  <<Sign(d) * (n \div g), Abs(d) \div g>>

R(i) == <<i, 1>>

IsFinite(x) == x[2] # 0
IsNaN(x) == x = <<0, 0>>

\* a + b and a - b of finite numbers
Plus(a, b) == Rat(a[1] * b[2] + b[1] * a[2], a[2] * b[2])
Minus(a, b) == Rat(a[1] * b[2] - b[1] * a[2], a[2] * b[2])

\* a * b: the sign rules of IEEE 754 for the non-finite values
Times(a, b) ==
    IF IsFinite(a) /\ IsFinite(b) THEN Rat(a[1] * b[1], a[2] * b[2])
    ELSE IF IsNaN(a) \/ IsNaN(b) THEN <<0, 0>>
    ELSE <<Sign(a[1]) * Sign(b[1]), 0>>

\* a / b of finite numbers: x / 0 is Infinity, -Infinity or NaN
DividedBy(a, b) ==
    IF b[1] = 0 THEN <<Sign(a[1]), 0>>
    ELSE Rat(a[1] * b[2], a[2] * b[1])

Greater(a, b) == IsFinite(a) /\ IsFinite(b) /\ a[1] * b[2] > b[1] * a[2]

\* the truthiness of a number or null: not null, not 0, not NaN
Truthy(x) == x # Nothing /\ x[1] # 0

\* a plausible slip: a non-finite number is delivered as it is
JsonNumberAsIs(x) == x

\* JSON.stringify of a number: Infinity, -Infinity and NaN are written as null
JsonNumber(x) == IF x # Nothing /\ ~IsFinite(x) THEN Nothing ELSE x

\* ------------------------------------------- GET /api/portfolio: adapters

\* a quote answer of the provider is [net, c]; fetchQuote gives the body, or
\* null when the response is not ok or fetch throws
fetchQuote(answer) ==
    IF answer.net = "ok" THEN [c |-> answer.c] ELSE Nothing

\* a candle answer is [net, s, c, t]; fetchCandle gives the points
\* { time: t[i], close: c[i] ?? 0 }, or [] on any failure
fetchCandle(answer) ==
    IF answer.net # "ok" \/ answer.s # "ok" THEN <<>>
    ELSE [i \in 1..Len(answer.t) |->
             [time |-> answer.t[i],
              close |-> IF i <= Len(answer.c) /\ answer.c[i] # Nothing
                        THEN answer.c[i] ELSE R(0)]]

\* a profile answer is [net, name, ticker]; fetchProfile gives the body, or
\* null when it has neither name nor ticker or the call failed
fetchProfile(answer) ==
    IF answer.net = "ok" /\ (answer.name # Nothing \/ answer.ticker # Nothing)
    THEN [name |-> answer.name, ticker |-> answer.ticker] ELSE Nothing

\* a plausible slip: the first point strictly after the timestamp
getStartPriceAfterDate(history, startTimestamp) ==
    IF history = <<>> THEN Nothing
    ELSE LET Match(point) ==
                 startTimestamp # Nothing /\ point.time > startTimestamp[1]
             match == FirstIndex({i \in DOMAIN history : Match(history[i])})
         IN  IF match # -1 THEN history[match].close ELSE history[1].close

\* getStartPriceForDate; a timestamp is <<seconds>>, or <<>> for NaN
getStartPriceForDate(history, startTimestamp) ==
    IF history = <<>> THEN Nothing
    ELSE LET Match(point) ==
                 startTimestamp # Nothing /\ point.time >= startTimestamp[1]
             match == FirstIndex({i \in DOMAIN history : Match(history[i])})
         IN  IF match # -1 THEN history[match].close ELSE history[1].close

\* --------------------------------------------- GET /api/portfolio: the seed

\* a date string is [k, t]: absent, a date at second t, or unparsable text
NoDate == [k |-> "absent", t |-> 0]
DateAt(t) == [k |-> "date", t |-> t]
BadDate == [k |-> "invalid", t |-> 0]

\* Math.floor(new Date(date).getTime() / 1000): <<seconds>>, or <<>> for NaN
DateSeconds(date) == IF date.k = "date" THEN <<date.t>> ELSE <<>>

\* the mapping of one stored allocation: amount from invested, else from
\* amount, else 0; shares when a number; the date, else the fallback date
MappedAllocation(allocation, fallbackDate) ==
    [symbol |-> allocation.symbol,
     amount |-> IF allocation.invested # Nothing THEN allocation.invested
                ELSE IF allocation.amount # Nothing THEN allocation.amount
                ELSE R(0),
     shares |-> allocation.shares,
     dateInvested |-> IF allocation.dateInvested.k # "absent"
                      THEN allocation.dateInvested ELSE fallbackDate]

MappedAllocations(investor, fallbackDate) ==
    [j \in 1..Len(investor.allocations) |->
        MappedAllocation(investor.allocations[j], fallbackDate)]

\* the investors grouped by name, in order of first appearance, the
\* allocations of a repeated name appended to the first entry of that name
RECURSIVE Grouped(_, _, _)
Grouped(source, fallbackDate, done) ==
    IF source = <<>> THEN done
    ELSE LET investor == Head(source)
             mapped == MappedAllocations(investor, fallbackDate)
             SameName(g) == g.name = investor.name
             existing == FirstIndex({i \in DOMAIN done : SameName(done[i])})
         IN  Grouped(Tail(source), fallbackDate,
                 IF existing # -1
                 THEN [done EXCEPT ![existing].allocations = @ \o mapped]
                 ELSE Append(done, [name |-> investor.name,
                                    allocations |-> mapped]))

InvestorsSeed(file, fallbackDate) ==
    IF file = Nothing THEN <<>> ELSE Grouped(file, fallbackDate, <<>>)

\* investorsSeed.flatMap(investor => investor.allocations)
RECURSIVE FlatAllocations(_)
FlatAllocations(seed) ==
    IF seed = <<>> THEN <<>>
    ELSE Head(seed).allocations \o FlatAllocations(Tail(seed))

\* Math.min of the timestamps: NaN when one is NaN
RECURSIVE MinSeconds(_)
MinSeconds(allocations) ==
    IF Len(allocations) = 1 THEN DateSeconds(allocations[1].dateInvested)
    ELSE LET first == DateSeconds(allocations[1].dateInvested)
             rest == MinSeconds(Tail(allocations))
         IN  IF first = <<>> \/ rest = <<>> THEN <<>>
             ELSE IF first[1] <= rest[1] THEN first ELSE rest

\* Array.from(new Set(symbols)): the distinct values in order of appearance
RECURSIVE Distinct(_, _)
Distinct(seq, done) ==
    IF seq = <<>> THEN done
    ELSE Distinct(Tail(seq),
             IF \E i \in DOMAIN done : done[i] = Head(seq)
             THEN done ELSE Append(done, Head(seq)))

SymbolsOf(seed) ==
    LET flat == FlatAllocations(seed)
    IN  Distinct([i \in 1..Len(flat) |-> ToUpperCase(flat[i].symbol)], <<>>)

HasCostBasis(allocation) ==
    /\ Truthy(allocation.shares)
    /\ Greater(allocation.shares, R(0))
    /\ Greater(allocation.amount, R(0))

\* priceFromFile.get(symbol): amount / shares of the first allocation of the
\* symbol that has both positive, else undefined
priceFromFile(seed, symbol) ==
    LET flat == FlatAllocations(seed)
        Match(a) == ToUpperCase(a.symbol) = symbol /\ HasCostBasis(a)
        first == FirstIndex({i \in DOMAIN flat : Match(flat[i])})
    IN  IF first = -1 THEN Nothing
        ELSE DividedBy(flat[first].amount, flat[first].shares)

\* a ?? b on numbers
OrElse(a, b) == IF a # Nothing THEN a ELSE b

\* --------------------------------------- GET /api/portfolio: the valuation

\* a plausible slip: any quote price that is there is taken
QuoteIfPresent(quote) ==
    IF quote # Nothing /\ quote.c # Nothing THEN quote.c ELSE Nothing

\* quote?.c && quote.c > 0 ? quote.c : null
PositiveQuote(quote) ==
    IF quote # Nothing /\ Truthy(quote.c) /\ Greater(quote.c, R(0))
    THEN quote.c ELSE Nothing

\* history.at(-1)?.close
LastClose(history) ==
    IF history = <<>> THEN Nothing ELSE history[Len(history)].close

\* the entry of symbolData for one symbol from what was fetched for it; from
\* is the earliest purchase second over all allocations
SymbolDataFrom(seed, symbol, from, history, quote, profile) ==
    LET baselinePrice == priceFromFile(seed, symbol)
    IN  [currentPrice |-> OrElse(OrElse(PositiveQuote(quote),
                                        LastClose(history)), baselinePrice),
         startPrice |-> OrElse(getStartPriceForDate(history, from),
                               baselinePrice),
         history |-> history,
         name |-> IF profile # Nothing THEN profile.name ELSE Nothing]

\* the entry of symbolData for one symbol, the fetches made one by one
SymbolDataOf(input, seed, symbol, from) ==
    SymbolDataFrom(seed, symbol, from,
                   fetchCandle(input.candle[symbol]),
                   fetchQuote(input.quote[symbol]),
                   fetchProfile(input.profile[symbol]))

\* currentPrice || 1
PriceOrOne(currentPrice) ==
    IF Truthy(currentPrice) THEN currentPrice ELSE R(1)

\* a plausible slip: without a price the amount stands in for the shares
ResolvedSharesOrAmount(sharesFromFile, startPrice, amount) ==
    IF Truthy(sharesFromFile) /\ Greater(sharesFromFile, R(0))
    THEN sharesFromFile
    ELSE IF Truthy(startPrice) /\ Greater(startPrice, R(0))
         THEN DividedBy(amount, startPrice)
    ELSE amount

\* sharesFromFile && sharesFromFile > 0 ? sharesFromFile
\*   : startPrice && startPrice > 0 ? amount / startPrice : null
ResolvedShares(sharesFromFile, startPrice, amount) ==
    IF Truthy(sharesFromFile) /\ Greater(sharesFromFile, R(0))
    THEN sharesFromFile
    ELSE IF Truthy(startPrice) /\ Greater(startPrice, R(0))
         THEN DividedBy(amount, startPrice)
    ELSE Nothing

\* the holding of one seed allocation; sharesFromFile is kept beside the
\* fields of the response to relate the result to the stored allocation
HoldingOf(allocation, data) ==
    LET upperSymbol == ToUpperCase(allocation.symbol)
        amount == allocation.amount
        allocationStartTs == DateSeconds(allocation.dateInvested)
        startPrice == OrElse(getStartPriceForDate(data.history,
                                                  allocationStartTs),
                             data.startPrice)
        shares == ResolvedShares(allocation.shares, startPrice, amount)
        currentPrice == OrElse(data.currentPrice, startPrice)
        currentValue == Times(shares, PriceOrOne(currentPrice))
        change == Minus(currentValue, amount)
        common == [symbol |-> upperSymbol,
                   name |-> OrElse(data.name, upperSymbol),
                   amountInvested |-> amount,
                   dateInvested |-> allocation.dateInvested,
                   sharesFromFile |-> allocation.shares]
    IN  IF ~Truthy(shares) \/ ~Greater(shares, R(0))
        THEN common @@ [startPrice |-> startPrice,
                        currentPrice |-> data.currentPrice,
                        shares |-> Nothing,
                        currentValue |-> Nothing,
                        change |-> Nothing,
                        changePercent |-> Nothing,
                        history |-> <<>>]
        ELSE common @@ [startPrice |-> startPrice,
                        currentPrice |-> currentPrice,
                        shares |-> shares,
                        currentValue |-> currentValue,
                        change |-> change,
                        changePercent |->
                            Times(DividedBy(change, amount), R(100)),
                        history |->
                            [i \in 1..Len(data.history) |->
                                [time |-> data.history[i].time,
                                 value |-> Times(data.history[i].close,
                                                 shares)]]]

\* a plausible slip: an unvalued holding counts as 0
HoldingWorthOrZero(holding) == OrElse(holding.currentValue, R(0))

\* holding.currentValue ?? holding.amountInvested
HoldingWorth(holding) ==
    OrElse(holding.currentValue, holding.amountInvested)

RECURSIVE SumAmountInvested(_)
SumAmountInvested(holdings) ==
    IF holdings = <<>> THEN R(0)
    ELSE Plus(SumAmountInvested(SubSeq(holdings, 1, Len(holdings) - 1)),
              holdings[Len(holdings)].amountInvested)

RECURSIVE SumWorth(_)
SumWorth(holdings) ==
    IF holdings = <<>> THEN R(0)
    ELSE Plus(SumWorth(SubSeq(holdings, 1, Len(holdings) - 1)),
              HoldingWorth(holdings[Len(holdings)]))

\* a plausible slip: the values of the points before the time are carried
\* along
RECURSIVE SumUpToTime(_, _)
SumUpToTime(points, time) ==
    IF points = <<>> THEN R(0)
    ELSE LET rest == SumUpToTime(SubSeq(points, 1, Len(points) - 1), time)
             point == points[Len(points)]
         IN  IF point.time <= time THEN Plus(rest, point.value) ELSE rest

\* the value the timeline map holds for one time: the values of the points
\* of that time, added in the order of the holdings and their points
RECURSIVE SumAtTime(_, _)
SumAtTime(points, time) ==
    IF points = <<>> THEN R(0)
    ELSE LET rest == SumAtTime(SubSeq(points, 1, Len(points) - 1), time)
             point == points[Len(points)]
         IN  IF point.time = time THEN Plus(rest, point.value) ELSE rest

RECURSIVE FlatHistory(_)
FlatHistory(holdings) ==
    IF holdings = <<>> THEN <<>>
    ELSE Head(holdings).history \o FlatHistory(Tail(holdings))

\* the elements of a finite set of integers in ascending order
RECURSIVE Ascending(_)
Ascending(S) ==
    IF S = {} THEN <<>>
    ELSE LET least == CHOOSE x \in S : \A y \in S : x <= y
         IN  <<least>> \o Ascending(S \ {least})

\* Array.from(timeline.entries()).sort((a, b) => a[0] - b[0])
ValueHistory(holdings) ==
    LET points == FlatHistory(holdings)
        times == Ascending({points[i].time : i \in DOMAIN points})
    IN  [k \in 1..Len(times) |->
            [time |-> times[k], value |-> SumAtTime(points, times[k])]]

\* one investor of the response
InvestorValueOf(investor, dataOf) ==
    LET holdings == [j \in 1..Len(investor.allocations) |->
                        HoldingOf(investor.allocations[j],
                            dataOf[ToUpperCase(investor.allocations[j].symbol)])]
        totalInvested == SumAmountInvested(holdings)
        currentValue == SumWorth(holdings)
        change == Minus(currentValue, totalInvested)
    IN  [name |-> investor.name,
         slug |-> slugify(investor.name),
         totalInvested |-> totalInvested,
         currentValue |-> currentValue,
         change |-> change,
         changePercent |-> IF Truthy(totalInvested)
                           THEN Times(DividedBy(change, totalInvested), R(100))
                           ELSE R(0),
         holdings |-> holdings,
         valueHistory |-> ValueHistory(holdings)]

\* NextResponse.json of one holding and one investor: every number passes
\* through JSON.stringify; sharesFromFile is not part of the body
JsonHolding(h) ==
    [h EXCEPT !.amountInvested = JsonNumber(@),
              !.startPrice = JsonNumber(@),
              !.currentPrice = JsonNumber(@),
              !.shares = JsonNumber(@),
              !.currentValue = JsonNumber(@),
              !.change = JsonNumber(@),
              !.changePercent = JsonNumber(@),
              !.history = [i \in DOMAIN @ |->
                              [@[i] EXCEPT !.value = JsonNumber(@)]]]

JsonInvestor(v) ==
    [v EXCEPT !.totalInvested = JsonNumber(@),
              !.currentValue = JsonNumber(@),
              !.change = JsonNumber(@),
              !.changePercent = JsonNumber(@),
              !.holdings = [j \in DOMAIN @ |-> JsonHolding(@[j])],
              !.valueHistory = [i \in DOMAIN @ |->
                                   [@[i] EXCEPT !.value = JsonNumber(@)]]]

\* the rest of the handler once the three arrays are there: symbolData from
\* the entries at the index of the symbol, then the investors
PortfolioFrom(input, symbols, quotes, histories, profiles) ==
    LET investorsSeed == InvestorsSeed(input.file, DateAt(input.now))
        flat == FlatAllocations(investorsSeed)
        from == IF flat = <<>> THEN Nothing ELSE MinSeconds(flat)
        IndexOf(symbol) == CHOOSE i \in DOMAIN symbols : symbols[i] = symbol
        dataOf == [symbol \in {symbols[i] : i \in DOMAIN symbols} |->
                      SymbolDataFrom(investorsSeed, symbol, from,
                                     histories[IndexOf(symbol)],
                                     quotes[IndexOf(symbol)],
                                     profiles[IndexOf(symbol)])]
    IN  [status |-> 200,
         investors |-> [k \in 1..Len(investorsSeed) |->
                           JsonInvestor(InvestorValueOf(investorsSeed[k],
                                                        dataOf))],
         symbols |-> symbols]

\* the handler: 500 without the API key; else the investors valued from the
\* file and the answers of the provider, each array in the order of symbols
PortfolioResponse(input) ==
    IF ~input.apiKey
    THEN [status |-> 500, investors |-> <<>>, symbols |-> <<>>]
    ELSE LET symbols == SymbolsOf(InvestorsSeed(input.file, DateAt(input.now)))
         IN  PortfolioFrom(input, symbols,
                 [i \in DOMAIN symbols |-> fetchQuote(input.quote[symbols[i]])],
                 [i \in DOMAIN symbols |-> fetchCandle(input.candle[symbols[i]])],
                 [i \in DOMAIN symbols |->
                     fetchProfile(input.profile[symbols[i]])])

GetPortfolio ==
    /\ pf.phase = "ready"
    /\ pf' = [phase |-> "done", input |-> pf.input,
              response |-> PortfolioResponse(pf.input)]
    /\ UNCHANGED <<store, today, last, hs, rt, race, sess>>

\* ---------------------------- GET /api/portfolio: the concurrent fetches

FetchKinds == {"quote", "candle", "profile"}

\* what one fetch resolves to
FetchResult(input, kind, symbol) ==
    CASE kind = "quote" -> fetchQuote(input.quote[symbol])
      [] kind = "candle" -> fetchCandle(input.candle[symbol])
      [] kind = "profile" -> fetchProfile(input.profile[symbol])

\* the slot of the result array a settled promise fills, as the array is
\* filled in order of completion
SettledSlotByArrival(index, settled) == settled + 1

\* the slot of the result array a settled promise fills: Promise.all keeps
\* the position of the promise in its input, whenever it settles
SettledSlot(index, settled) == index

Unsettled == [pending |-> TRUE]

\* the handler up to the await: 500 without the API key, else every fetch of
\* every symbol is started
PortfolioBegin ==
    /\ pf.phase = "received"
    /\ pf' = IF ~pf.input.apiKey
             THEN [phase |-> "done", input |-> pf.input, order |-> <<>>,
                   response |-> [status |-> 500, investors |-> <<>>,
                                 symbols |-> <<>>]]
             ELSE LET symbols == SymbolsOf(InvestorsSeed(pf.input.file,
                                                         DateAt(pf.input.now)))
                  IN  [phase |-> "fetching", input |-> pf.input,
                       symbols |-> symbols,
                       pending |-> FetchKinds \X DOMAIN symbols,
                       order |-> <<>>,
                       results |-> [kind \in FetchKinds |->
                                       [i \in DOMAIN symbols |-> Unsettled]]]
    /\ UNCHANGED <<store, today, last, hs, rt, race, sess>>

\* one of the fetches in flight completes, in any order
FetchSettles ==
    /\ pf.phase = "fetching"
    /\ \E fetch \in pf.pending :
           LET kind == fetch[1]
               index == fetch[2]
               settled == Cardinality({i \in DOMAIN pf.symbols :
                                          <<kind, i>> \notin pf.pending})
               slot == SettledSlot(index, settled)
           IN  pf' = [pf EXCEPT
                         !.pending = @ \ {fetch},
                         !.order = Append(@, fetch),
                         !.results[kind][slot] =
                             FetchResult(pf.input, kind, pf.symbols[index])]
    /\ UNCHANGED <<store, today, last, hs, rt, race, sess>>

\* every fetch has settled: the handler goes on behind the await
PortfolioValue ==
    /\ pf.phase = "fetching"
    /\ pf.pending = {}
    /\ pf' = [phase |-> "done", input |-> pf.input, order |-> pf.order,
              symbols |-> pf.symbols, results |-> pf.results,
              response |-> PortfolioFrom(pf.input, pf.symbols,
                                         pf.results["quote"],
                                         pf.results["candle"],
                                         pf.results["profile"])]
    /\ UNCHANGED <<store, today, last, hs, rt, race, sess>>

\* ------------------------------------------------------ GET /api/history

ONE_DAY == 24 * 60 * 60

\* the day ranges tried against the keyed provider, in order
ranges == <<450, 400, 365, 240, 120, 60>>

\* response.ok
IsOk(status) == status >= 200 /\ status <= 299

\* a candle answer of the keyed provider is [net, status, s, c, t];
\* fetchHistoryRange gives { points, status }: no points when the response
\* is not ok, is not "ok" data or has no closes or no times; status 500
\* when fetch throws
fetchHistoryRange(answer) ==
    IF answer.net = "throws" THEN [points |-> Nothing, status |-> 500]
    ELSE IF ~IsOk(answer.status)
         THEN [points |-> Nothing, status |-> answer.status]
    ELSE IF answer.s # "ok" \/ Len(answer.c) = 0 \/ Len(answer.t) = 0
         THEN [points |-> Nothing, status |-> answer.status]
    ELSE [points |-> [i \in 1..Len(answer.t) |->
                         [time |-> answer.t[i],
                          close |-> IF i <= Len(answer.c) /\ answer.c[i] # Nothing
                                    THEN answer.c[i] ELSE R(0)]],
          status |-> answer.status]

\* a quote answer is [net, status, json, c, pc]; fetchHistoryQuote is the
\* fetchQuote of this route: it throws when fetch throws, gives null when the
\* response is not ok or its body does not parse, else { current, prevClose }
HistoryQuoteThrows(answer) == answer.net = "throws"

fetchHistoryQuote(answer) ==
    IF ~IsOk(answer.status) \/ ~answer.json THEN Nothing
    ELSE [current |-> answer.c, prevClose |-> answer.pc]

\* the points of a price list against the timestamps: a point for every
\* timestamp whose price is present
RECURSIVE YahooPoints(_, _, _)
YahooPoints(timestamps, prices, idx) ==
    IF idx > Len(timestamps) THEN <<>>
    ELSE LET rest == YahooPoints(timestamps, prices, idx + 1)
         IN  IF idx > Len(prices) \/ prices[idx] = Nothing THEN rest
             ELSE <<[time |-> timestamps[idx], close |-> prices[idx]]>> \o rest

\* a chart answer of the key-less provider is [net, timestamps, adj, close];
\* fetchYahooHistory prefers the adjusted closes and gives null on a failed
\* call or fewer than 2 points
fetchYahooHistory(answer) ==
    IF answer.net # "ok" THEN Nothing
    ELSE LET prices == IF Len(answer.adj) # 0 THEN answer.adj ELSE answer.close
             points == YahooPoints(answer.timestamps, prices, 1)
         IN  IF Len(points) < 2 THEN Nothing ELSE points

\* a plausible slip: a series needs more than 2 points
AcceptsRangeOverTwo(result) ==
    result.points # Nothing /\ Len(result.points) > 2

\* result?.points && result.points.length > 1
AcceptsRange(result) ==
    result.points # Nothing /\ Len(result.points) > 1

\* the response once no call is left: the history, or the error with 429
\* for a last status of 403 or 429, else the last status, else 404
HistoryResponse(history, lastStatus) ==
    IF history = Nothing
    THEN [status |-> IF lastStatus \in {<<403>>, <<429>>} THEN 429
                     ELSE IF lastStatus # Nothing THEN lastStatus[1]
                     ELSE 404,
          history |-> Nothing, error |-> TRUE]
    ELSE [status |-> 200, history |-> history, error |-> FALSE]

HistoryDone(h, response) ==
    [h EXCEPT !.phase = "done", !.response = response]

\* what the request keeps of a call it made: the step, the day range asked
\* for (0 outside the range loop), the number of points the call yielded
\* and whether fetch threw
CallMade(h, step, days, points, threw) ==
    [h EXCEPT !.calls = Append(@, [step |-> step, days |-> days,
                                   points |-> IF points = Nothing THEN 0
                                              ELSE Len(points),
                                   threw |-> threw])]

\* a plausible slip: the keyed provider is asked whatever the first answer
KeyedWantedAlways(history, apiKey) == apiKey

\* !history && apiKey
KeyedWanted(history, apiKey) == history = Nothing /\ apiKey

\* the request arrives: 400 without a symbol
HistoryBegin ==
    /\ hs.phase = "start"
    /\ hs' = IF hs.symbol = <<>>
             THEN HistoryDone(hs, [status |-> 400, history |-> Nothing,
                                   error |-> TRUE])
             ELSE [hs EXCEPT !.phase = "yahoo",
                             !.normalized = ToUpperCase(hs.symbol)]
    /\ UNCHANGED <<store, today, last, pf, rt, race, sess>>

\* the key-less provider answers; with its history, or without an API key,
\* the response follows at once
HistoryYahoo(answer) ==
    /\ hs.phase = "yahoo"
    /\ LET history == fetchYahooHistory(answer)
           after == [CallMade(hs, "yahoo", 0, history, answer.net = "throws")
                        EXCEPT !.history = history,
                               !.yahooFailed = (history = Nothing)]
       IN  hs' = IF KeyedWanted(history, hs.apiKey)
                 THEN [after EXCEPT !.phase = "range", !.rangeIndex = 1]
                 ELSE HistoryDone(after, HistoryResponse(history, Nothing))
    /\ UNCHANGED <<store, today, last, pf, rt, race, sess>>

\* the keyed provider answers for the range at rangeIndex: a series of more
\* than one point ends the loop and is the response; after the last range
\* the quote is asked
HistoryRange(answer) ==
    /\ hs.phase = "range"
    /\ LET result == fetchHistoryRange(answer)
           after == [CallMade(hs, "range", ranges[hs.rangeIndex],
                              result.points, answer.net = "throws")
                        EXCEPT !.lastStatus = <<result.status>>,
                               !.returned =
                                   IF result.points = Nothing THEN @
                                   ELSE @ \cup {result.points}]
       IN  hs' = IF AcceptsRange(result)
                 THEN HistoryDone([after EXCEPT !.history = result.points],
                                  HistoryResponse(result.points,
                                                  <<result.status>>))
                 ELSE IF hs.rangeIndex < Len(ranges)
                      THEN [after EXCEPT !.rangeIndex = @ + 1]
                 ELSE [after EXCEPT !.phase = "quote"]
    /\ UNCHANGED <<store, today, last, pf, rt, race, sess>>

\* the quote answers: a throwing fetch is caught by the handler, 500; a
\* current price gives the two points a week apart
HistoryQuote(answer) ==
    /\ hs.phase = "quote"
    /\ LET quote == fetchHistoryQuote(answer)
           to == hs.now
           history ==
               IF quote # Nothing /\ quote.current # Nothing
               THEN <<[time |-> to - 7 * ONE_DAY,
                       close |-> OrElse(quote.prevClose, quote.current)],
                      [time |-> to, close |-> quote.current]>>
               ELSE Nothing
           after == CallMade(hs, "quote", 0, history,
                             HistoryQuoteThrows(answer))
       IN  hs' = IF HistoryQuoteThrows(answer)
                 THEN HistoryDone([after EXCEPT !.caught = TRUE],
                                  [status |-> 500, history |-> Nothing,
                                   error |-> TRUE])
                 ELSE HistoryDone([after EXCEPT !.history = history],
                                  HistoryResponse(history, hs.lastStatus))
    /\ UNCHANGED <<store, today, last, pf, rt, race, sess>>

\* -------------------------------------------------------- GET /api/quote

\* a plausible slip: a missing timestamp does not count as empty
looksEmptyStrict(body) ==
    /\ body.c = R(0) \/ body.c = Nothing
    /\ body.pc = R(0)
    /\ body.t = R(0)

\* (body.c === 0 || body.c == null) && body.pc === 0
\*   && (body.t === 0 || body.t == null)
looksEmpty(body) ==
    /\ body.c = R(0) \/ body.c = Nothing
    /\ body.pc = R(0)
    /\ body.t = R(0) \/ body.t = Nothing

RouteError(status) == [status |-> status, error |-> TRUE]

\* the handler: 400 without a symbol, 500 without the API key or when a
\* fetch throws, 502 when the quote response is not ok, 404 for a quote
\* without a current price or one that looks empty, else the quote with
\* the profile fields (a profile that is not ok or does not parse is null)
QuoteResponse(input) ==
    IF input.symbol = <<>> THEN RouteError(400)
    ELSE IF ~input.apiKey THEN RouteError(500)
    ELSE IF input.quote.net = "throws" \/ input.profile.net = "throws"
         THEN RouteError(500)
    ELSE IF ~IsOk(input.quote.status) THEN RouteError(502)
    ELSE LET body == input.quote.body
             profile == IF IsOk(input.profile.status) /\ input.profile.json
                        THEN input.profile.body ELSE Nothing
         IN  IF body.c = Nothing \/ looksEmpty(body) THEN RouteError(404)
             ELSE [status |-> 200, error |-> FALSE,
                   symbol |-> ToUpperCase(input.symbol),
                   name |-> IF profile # Nothing THEN profile.name ELSE Nothing,
                   price |-> body.c,
                   change |-> OrElse(body.d, R(0)),
                   high |-> body.h, low |-> body.l, open |-> body.o,
                   previousClose |-> body.pc,
                   timestamp |-> body.t,
                   rawQuote |-> body,
                   rawProfile |-> profile]

GetQuote ==
    /\ rt.phase = "ready" /\ rt.fn = "quote"
    /\ rt' = [rt EXCEPT !.phase = "done", !.output = QuoteResponse(rt.input)]
    /\ UNCHANGED <<store, today, last, pf, hs, race, sess>>

\* ------------------------------------------------------- GET /api/search

\* String.prototype.includes for one character
Includes(str, ch) == \E i \in DOMAIN str : str[i] = ch

allowedTypes == {<<"Common Stock">>, <<"EQS">>, <<"ETF">>}

\* the items the loop skips: no symbol, no description, a symbol with '.',
\* ':' or '/', or a type that is present and not allowed
SkippedItem(item) ==
    \/ item.symbol = <<>>
    \/ item.description = <<>>
    \/ Includes(item.symbol, ".")
    \/ Includes(item.symbol, ":")
    \/ Includes(item.symbol, "/")
    \/ (item.type # <<>> /\ item.type \notin allowedTypes)

MaxResults == 8

\* a plausible slip: the loop stops one result late
ReachedCapLate(results) == Len(results) > MaxResults

\* results.length >= 8
ReachedCap(results) == Len(results) >= MaxResults

\* the loop over data.result: skip, de-duplicate by the uppercased symbol,
\* push, stop at the cap
RECURSIVE SearchLoop(_, _, _)
SearchLoop(items, seen, results) ==
    IF items = <<>> THEN results
    ELSE LET item == Head(items)
             sym == ToUpperCase(item.symbol)
         IN  IF SkippedItem(item) \/ sym \in seen
             THEN SearchLoop(Tail(items), seen, results)
             ELSE LET pushed == Append(results,
                                    [symbol |-> sym,
                                     description |-> item.description,
                                     type |-> item.type])
                  IN  IF ReachedCap(pushed) THEN pushed
                      ELSE SearchLoop(Tail(items), seen \cup {sym}, pushed)

\* the handler: 400 without q, 500 without the API key or when fetch
\* throws, 502 when the provider's response is not ok, else the results
SearchResponse(input) ==
    IF input.q = <<>> THEN RouteError(400)
    ELSE IF ~input.apiKey THEN RouteError(500)
    ELSE IF input.net = "throws" THEN RouteError(500)
    ELSE IF ~IsOk(input.status) THEN RouteError(502)
    ELSE [status |-> 200, error |-> FALSE,
          results |-> IF input.isArray
                      THEN SearchLoop(input.result, {}, <<>>) ELSE <<>>]

GetSearch ==
    /\ rt.phase = "ready" /\ rt.fn = "search"
    /\ rt' = [rt EXCEPT !.phase = "done", !.output = SearchResponse(rt.input)]
    /\ UNCHANGED <<store, today, last, pf, hs, race, sess>>

\* ------------------------------------------- the home page: mergeHoldings

\* a plausible slip: an unvalued holding counts as 0
CurrentOrZero(holding) == OrElse(holding.currentValue, R(0))

\* holding.currentValue ?? holding.amountInvested ?? 0
CurrentOrCost(holding) ==
    OrElse(OrElse(holding.currentValue, holding.amountInvested), R(0))

PositiveOrNull(shares) == IF Greater(shares, R(0)) THEN shares ELSE Nothing

\* the entry of bySymbol after one more holding of its symbol
MergedInto(existing, holding) ==
    LET current == CurrentOrCost(holding)
        shares == OrElse(holding.shares, R(0))
        totalInvested == Plus(OrElse(existing.amountInvested, R(0)),
                              OrElse(holding.amountInvested, R(0)))
        totalCurrent == Plus(CurrentOrCost(existing), current)
        totalShares == Plus(OrElse(existing.shares, R(0)), shares)
        change == Minus(totalCurrent, totalInvested)
    IN  [existing EXCEPT
            !.amountInvested = totalInvested,
            !.currentValue = totalCurrent,
            !.shares = PositiveOrNull(totalShares),
            !.change = change,
            !.changePercent =
                IF Truthy(totalInvested)
                THEN Times(DividedBy(change, totalInvested), R(100))
                ELSE Nothing]

\* bySymbol as the sequence of its values, in order of insertion
RECURSIVE BySymbol(_, _)
BySymbol(holdings, done) ==
    IF holdings = <<>> THEN done
    ELSE LET holding == Head(holdings)
             at == FirstIndex({i \in DOMAIN done :
                                  done[i].symbol = holding.symbol})
         IN  BySymbol(Tail(holdings),
                 IF at = -1
                 THEN Append(done,
                          [holding EXCEPT
                              !.currentValue = CurrentOrCost(holding),
                              !.shares = PositiveOrNull(
                                             OrElse(holding.shares, R(0)))])
                 ELSE [done EXCEPT ![at] = MergedInto(done[at], holding)])

\* the final map: a holding without change gets change and changePercent
\* from its current value and amount
WithChange(h) ==
    IF h.change # Nothing THEN h
    ELSE LET current == CurrentOrCost(h)
             change == Minus(current, OrElse(h.amountInvested, R(0)))
         IN  [h EXCEPT
                 !.change = change,
                 !.changePercent =
                     IF Truthy(OrElse(h.amountInvested, R(0)))
                     THEN Times(DividedBy(change,
                                          OrElse(h.amountInvested, R(1))),
                                R(100))
                     ELSE Nothing]

mergeHoldings(holdings) ==
    LET merged == BySymbol(holdings, <<>>)
    IN  [i \in DOMAIN merged |-> WithChange(merged[i])]

CallMergeHoldings ==
    /\ rt.phase = "ready" /\ rt.fn = "mergeHoldings"
    /\ rt' = [rt EXCEPT !.phase = "done", !.output = mergeHoldings(rt.input)]
    /\ UNCHANGED <<store, today, last, pf, hs, race, sess>>

\* ------------------------------------------------------ the admin requests

\* the cookies a request presents
CookieInputs ==
    {{}} \cup {{LegacyKey, TodayKey(d)} : d \in 1..MaxDay}

\* the cookies of a request and what the database does during it
RequestInputs(day) ==
    {[cookies |-> c, db |-> "ok"] : c \in CookieInputs}
    \cup {[cookies |-> {LegacyKey, TodayKey(day)}, db |-> f] :
              f \in {"readThrows", "writeThrows"}}

NameInputs ==
    {<<>>, <<"a">>, <<"A", " ">>, <<"A", " ", " ", "a">>, <<"a", "-", "a">>}

SlugInputs == {<<>>, <<"A">>, <<"a", "-", "a">>}

ProviderGood == [apiKey |-> TRUE, net |-> "ok", c |-> Num(1)]
ProviderNoData == [apiKey |-> TRUE, net |-> "ok", c |-> Num(0)]
ProviderDown == [apiKey |-> TRUE, net |-> "throws", c |-> Null]
ProviderNotOk == [apiKey |-> TRUE, net |-> "notOk", c |-> Null]
ProviderNoKey == [apiKey |-> FALSE, net |-> "ok", c |-> Num(1)]

ValidAddBody ==
    AllocationBody(<<" ", "a">>, Num(1), Undefined, Num(1), <<"d">>, 0, Undefined)

\* the body of an add request and what the quote provider answers during it
AddInputs ==
    {[body |-> ValidAddBody, provider |-> p] :
        p \in {ProviderGood, ProviderNoData, ProviderDown, ProviderNotOk,
               ProviderNoKey}}
    \cup
    {[body |-> b, provider |-> ProviderGood] :
        b \in {AllocationBody(<<" ", "a">>, Null, Num(1), NumericString(1),
                              <<"d">>, 0, Undefined),
               AllocationBody(<<" ", "a">>, Num(0), Num(1), Num(1), <<"d">>, 0,
                              Undefined),
               AllocationBody(<<" ", "a">>, Num(1), Undefined, Null, <<"d">>, 0,
                              Undefined),
               AllocationBody(<<" ">>, Num(1), Undefined, Num(1), <<"d">>, 0,
                              Undefined)}}

\* the body of an edit request and what the quote provider would answer
EditInputs ==
    {[body |-> AllocationBody(<<"a", "a">>, Undefined, Undefined, Undefined,
                              <<>>, 1, Num(0)),
      provider |-> p] : p \in {ProviderGood, ProviderNoData}}
    \cup
    {[body |-> b, provider |-> ProviderGood] :
        b \in {AllocationBody(<<>>, Num(0), Undefined, Num(0), <<>>, 0, Num(0)),
               AllocationBody(<<>>, Text, Undefined, Undefined, <<"d">>, 2,
                              Undefined),
               AllocationBody(<<>>, Undefined, Undefined, Undefined, <<>>, 0,
                              Undefined)}}

DeleteBodies ==
    {AllocationBody(<<>>, Undefined, Undefined, Undefined, <<>>, 1, Undefined),
     AllocationBody(<<>>, Undefined, Undefined, Undefined, <<>>, 0, Num(0)),
     AllocationBody(<<>>, Undefined, Undefined, Undefined, <<>>, 0, Undefined)}

\* -------------------------------------------------------------------- Init

RtIdle == [phase |-> "idle"]
RaceIdle == [phase |-> "idle"]
SessIdle == [phase |-> "idle"]
PfIdle == [phase |-> "idle"]
HsIdle == [phase |-> "idle"]

\* an allocation written before ids were assigned
LegacyAllocation ==
    [id |-> 0, symbol |-> <<"A">>, invested |-> 1, shares |-> 1,
     dateInvested |-> <<"d">>]

InitStores ==
    {[exists |-> FALSE, investors |-> <<>>],
     [exists |-> TRUE,
      investors |-> <<[name |-> <<"a", " ", "a">>,
                       allocations |-> <<LegacyAllocation>>]>>]}

Init ==
    /\ store \in InitStores
    /\ today = 1
    /\ last = Response("none", {}, FALSE, 0, <<>>, <<>>)
    /\ pf = PfIdle
    /\ hs = HsIdle
    /\ rt = RtIdle /\ race = RaceIdle /\ sess = SessIdle

Next ==
    \/ \E r \in RequestInputs(today), n \in NameInputs :
           CreateInvestor(r.cookies, n, r.db)
    \/ \E r \in RequestInputs(today), s \in SlugInputs, n \in NameInputs :
           RenameInvestor(r.cookies, s, n, r.db)
    \/ \E r \in RequestInputs(today), s \in SlugInputs :
           DeleteInvestor(r.cookies, s, r.db)
    \/ \E r \in RequestInputs(today), s \in SlugInputs, a \in AddInputs :
           AddAllocation(r.cookies, s, a.body, a.provider, r.db)
    \/ \E r \in RequestInputs(today), s \in SlugInputs, e \in EditInputs :
           EditAllocation(r.cookies, s, e.body, e.provider, r.db)
    \/ \E r \in RequestInputs(today), s \in SlugInputs, b \in DeleteBodies :
           DeleteAllocation(r.cookies, s, b, r.db)
    \/ AdvanceDay

Spec == Init /\ [][Next]_vars

\* ------------------------------------------------- the portfolio requests

NowSeconds == MaxTime + 2

Prices == {R(i) : i \in 0..MaxValue}

SymbolA == <<"A">>
SymbolAA == <<"A", "A">>

QuoteDown == [net |-> "throws", c |-> Nothing]
QuoteOf(c) == [net |-> "ok", c |-> c]
QuoteAnswers == {QuoteDown} \cup {QuoteOf(c) : c \in {Nothing} \cup Prices}

CandleDown == [net |-> "notOk", s |-> "", c |-> <<>>, t |-> <<>>]
CandleOf(s, c, t) == [net |-> "ok", s |-> s, c |-> c, t |-> t]

\* the histories of the provider: ascending times, a close for each time;
\* besides them a failed call, a no_data answer and one with a close missing
CandleAnswers ==
    {CandleDown, CandleOf("no_data", <<>>, <<>>)}
    \cup UNION {{CandleOf("ok", c, Ascending(T)) :
                    c \in [1..Cardinality(T) -> Prices]
                          \cup [1..(Cardinality(T) - 1) -> Prices]} :
                T \in SUBSET (1..MaxTime)}

ProfileDown == [net |-> "throws", name |-> Nothing, ticker |-> Nothing]
ProfileOf(name, ticker) == [net |-> "ok", name |-> name, ticker |-> ticker]

\* the first stored allocation: symbol "a", invested and shares as numbers
\* or absent, the date absent or at a second
FileAllocation(symbol, invested, amount, shares, dateInvested) ==
    [symbol |-> symbol, invested |-> invested, amount |-> amount,
     shares |-> shares, dateInvested |-> dateInvested]

FirstAllocations ==
    {FileAllocation(<<"a">>, invested, Nothing, shares, date) :
        invested \in Prices,
        shares \in {Nothing} \cup Prices,
        date \in {NoDate} \cup {DateAt(t) : t \in 1..(MaxTime + 1)}}

\* what else the file and the provider hold
AlonePortfolio(first, quote, candle) ==
    [apiKey |-> TRUE, now |-> NowSeconds,
     file |-> <<[name |-> <<"a">>, allocations |-> <<first>>]>>,
     quote |-> (SymbolA :> quote),
     candle |-> (SymbolA :> candle),
     profile |-> (SymbolA :> ProfileDown)]

TwoSymbolPortfolio(first, quote, candle) ==
    [apiKey |-> TRUE, now |-> NowSeconds,
     file |-> <<[name |-> <<"a">>,
                 allocations |->
                     <<first,
                       FileAllocation(<<"a", "a">>, Nothing, R(1), Nothing,
                                      BadDate)>>]>>,
     quote |-> (SymbolA :> quote) @@ (SymbolAA :> QuoteOf(R(2))),
     candle |-> (SymbolA :> candle) @@ (SymbolAA :> CandleDown),
     profile |-> (SymbolA :> ProfileOf(<<"n">>, SymbolA))
                 @@ (SymbolAA :> ProfileDown)]

RepeatedNamePortfolio(first, quote, candle) ==
    [apiKey |-> TRUE, now |-> NowSeconds,
     file |-> <<[name |-> <<"a">>, allocations |-> <<first>>],
                [name |-> <<"a">>,
                 allocations |->
                     <<FileAllocation(<<"A">>, R(2), Nothing, R(1),
                                      DateAt(1))>>]>>,
     quote |-> (SymbolA :> quote),
     candle |-> (SymbolA :> candle),
     profile |-> (SymbolA :> ProfileOf(Nothing, SymbolA))]

\* a second symbol with a history of its own: one point, at the last time
TwoGridPortfolio(first, quote, candle) ==
    [apiKey |-> TRUE, now |-> NowSeconds,
     file |-> <<[name |-> <<"a">>,
                 allocations |->
                     <<first,
                       FileAllocation(<<"a", "a">>, R(1), Nothing, R(1),
                                      DateAt(1))>>]>>,
     quote |-> (SymbolA :> quote) @@ (SymbolAA :> QuoteOf(R(2))),
     candle |-> (SymbolA :> candle)
                @@ (SymbolAA :> CandleOf("ok", <<R(2)>>, <<MaxTime>>)),
     profile |-> (SymbolA :> ProfileDown) @@ (SymbolAA :> ProfileDown)]

EmptyProviders ==
    [quote |-> <<>>, candle |-> <<>>, profile |-> <<>>]

PortfolioKinds == {"alone", "twoSymbols", "repeatedName", "twoGrids"}

PortfolioOf(kind, first, quote, candle) ==
    CASE kind = "alone" -> AlonePortfolio(first, quote, candle)
      [] kind = "twoSymbols" -> TwoSymbolPortfolio(first, quote, candle)
      [] kind = "repeatedName" -> RepeatedNamePortfolio(first, quote, candle)
      [] kind = "twoGrids" -> TwoGridPortfolio(first, quote, candle)

\* no key, no file, no investors, or an investor without allocations
BarePortfolio(key, file) ==
    [apiKey |-> key, now |-> NowSeconds, file |-> file] @@ EmptyProviders

BareFiles == {Nothing, <<>>, <<[name |-> <<"a">>, allocations |-> <<>>]>>}

InitPortfolio ==
    /\ store = [exists |-> FALSE, investors |-> <<>>]
    /\ today = 1
    /\ last = Response("none", {}, FALSE, 0, <<>>, <<>>)
    /\ \/ \E kind \in PortfolioKinds, first \in FirstAllocations,
             quote \in QuoteAnswers, candle \in CandleAnswers :
               pf = [phase |-> "ready",
                     input |-> PortfolioOf(kind, first, quote, candle)]
       \/ \E key \in BOOLEAN, file \in BareFiles :
               pf = [phase |-> "ready", input |-> BarePortfolio(key, file)]
    /\ hs = HsIdle
    /\ rt = RtIdle /\ race = RaceIdle /\ sess = SessIdle

NextPortfolio == GetPortfolio

SpecPortfolio == InitPortfolio /\ [][NextPortfolio]_vars

\* ------------------------------------ the portfolio requests, fetch by fetch

\* two symbols whose quotes, histories and profiles all differ
FetchPortfolio(first, quote, candle) ==
    [apiKey |-> TRUE, now |-> NowSeconds,
     file |-> <<[name |-> <<"a">>, allocations |-> <<first>>],
                [name |-> <<"b">>,
                 allocations |->
                     <<FileAllocation(<<"a", "a">>, R(1), Nothing, Nothing,
                                      DateAt(1)),
                       FileAllocation(<<"A">>, R(1), Nothing, R(1),
                                      DateAt(1))>>]>>,
     quote |-> (SymbolA :> quote) @@ (SymbolAA :> QuoteOf(R(MaxValue + 1))),
     candle |-> (SymbolA :> candle)
                @@ (SymbolAA :> CandleOf("ok", <<R(MaxValue + 2)>>, <<1>>)),
     profile |-> (SymbolA :> ProfileOf(<<"n">>, SymbolA))
                 @@ (SymbolAA :> ProfileOf(<<"m">>, SymbolAA))]

FetchFirsts ==
    {FileAllocation(<<"a">>, R(1), Nothing, shares, DateAt(1)) :
        shares \in {Nothing, R(1)}}

InitFetch ==
    /\ store = [exists |-> FALSE, investors |-> <<>>]
    /\ today = 1
    /\ last = Response("none", {}, FALSE, 0, <<>>, <<>>)
    /\ \/ \E first \in FetchFirsts, quote \in QuoteAnswers,
             candle \in {CandleDown} \cup {CandleOf("ok", <<R(v)>>, <<1>>) :
                                              v \in 1..MaxValue} :
               pf = [phase |-> "received",
                     input |-> FetchPortfolio(first, quote, candle)]
       \/ \E key \in BOOLEAN :
               pf = [phase |-> "received", input |-> BarePortfolio(key, <<>>)]
    /\ hs = HsIdle
    /\ rt = RtIdle /\ race = RaceIdle /\ sess = SessIdle

NextFetch ==
    \/ PortfolioBegin
    \/ FetchSettles
    \/ PortfolioValue

SpecFetch == InitFetch /\ [][NextFetch]_vars

\* --------------------------------------------- two admin writes in flight

RaceNames == {<<>>, <<"a", " ", "a">>, <<"b">>, <<"c">>}

RaceSlugs == {<<"a", "-", "a">>, <<"b">>}

\* create and delete requests, with today's token or without a cookie
WriteRequests ==
    {[op |-> "createInvestor", cookies |-> c, name |-> n, slug |-> <<>>] :
        c \in {{}, {TodayKey(1)}}, n \in RaceNames}
    \cup
    {[op |-> "deleteInvestor", cookies |-> c, name |-> <<>>, slug |-> g] :
        c \in {{}, {TodayKey(1)}}, g \in RaceSlugs}

Received == [pc |-> "received", read |-> <<>>, status |-> 0]

InitRace ==
    /\ store \in InitStores
    /\ store.exists
    /\ today = 1
    /\ last = Response("none", {}, FALSE, 0, <<>>, <<>>)
    /\ pf = PfIdle
    /\ hs = HsIdle
    /\ rt = RtIdle /\ sess = SessIdle
    /\ \E first \in WriteRequests, second \in WriteRequests :
           race = [phase |-> "running",
                   before |-> store.investors,
                   request |-> <<first, second>>,
                   proc |-> <<Received, Received>>,
                   order |-> <<>>]

NextRace ==
    \/ \E p \in 1..2 : WriteRead(p)
    \/ \E p \in 1..2 : WriteUpdate(p)

SpecRace == InitRace /\ [][NextRace]_vars

\* ------------------------------- creates, renames and deletes in flight

\* authorized create, rename and delete requests
NameRequests ==
    {[op |-> "createInvestor", cookies |-> {TodayKey(1)}, name |-> n,
      slug |-> <<>>] : n \in {<<"b">>, <<"B", " ">>}}
    \cup
    {[op |-> "renameInvestor", cookies |-> {TodayKey(1)}, name |-> n.to,
      slug |-> n.slug] :
        n \in {[slug |-> <<"a", "-", "a">>, to |-> <<"B">>],
               [slug |-> <<"b">>, to |-> <<" ", "c">>]}}
    \cup
    {[op |-> "deleteInvestor", cookies |-> {TodayKey(1)}, name |-> <<>>,
      slug |-> g] : g \in RaceSlugs}

Writers == 3

InitNames ==
    /\ store \in InitStores
    /\ store.exists
    /\ today = 1
    /\ last = Response("none", {}, FALSE, 0, <<>>, <<>>)
    /\ pf = PfIdle
    /\ hs = HsIdle
    /\ rt = RtIdle /\ sess = SessIdle
    /\ \E requests \in [1..Writers -> NameRequests] :
           race = [phase |-> "running",
                   before |-> store.investors,
                   request |-> requests,
                   proc |-> [p \in 1..Writers |-> Received],
                   order |-> <<>>]

NextNames ==
    \/ \E p \in 1..Writers : WriteRead(p)
    \/ \E p \in 1..Writers : WriteUpdate(p)

SpecNames == InitNames /\ [][NextNames]_vars

\* ------------------------------------------------- a day of admin sessions

\* the server's clock against UTC, in instants: behind, equal, ahead
Offsets == {-1, 0, 1}

Passwords == {"ADMIN_PASSWORD", "other"}

Clients == {"browser", "token"}

InitSession ==
    /\ store = [exists |-> FALSE, investors |-> <<>>]
    /\ today = 1
    /\ last = Response("none", {}, FALSE, 0, <<>>, <<>>)
    /\ pf = PfIdle
    /\ hs = HsIdle
    /\ rt = RtIdle /\ race = RaceIdle
    /\ \E offset \in Offsets :
           sess = [phase |-> "running", clock |-> 0, offset |-> offset,
                   jar |-> {}, issued |-> {}, loggedOut |-> FALSE,
                   last |-> [op |-> "none", at |-> 0, matched |-> FALSE,
                             status |-> 0, cookies |-> {}, setCookie |-> {}]]

NextSession ==
    \/ \E password \in Passwords : Login(password)
    \/ Logout
    \/ \E client \in Clients : GatedWrite(client)
    \/ Tick

SpecSession == InitSession /\ [][NextSession]_vars

\* ------------------------------------- edits and deletes of allocations

\* an allocation that was given an id when it was added
StoredAllocation(id, symbol) ==
    [id |-> id, symbol |-> symbol, invested |-> 1, shares |-> 1,
     dateInvested |-> <<"d">>]

\* two investors; the first holds an allocation with an id and one without
AllocationStore ==
    [exists |-> TRUE,
     investors |-> <<[name |-> <<"a", " ", "a">>,
                      allocations |-> <<StoredAllocation(1, <<"A">>),
                                        LegacyAllocation>>],
                     [name |-> <<"b">>,
                      allocations |-> <<LegacyAllocation>>]>>]

AllocationSlugs == {<<"a", "-", "a">>, <<"b">>, <<"A">>}

\* the id of the body absent (0) or one of the ids there are; the position
\* absent or a number
AllocationTargets ==
    ({0} \cup IdSpace)
        \X ({Undefined} \cup {Num(n) : n \in 0..(MaxAllocations + 1)})

EditBody(target) ==
    AllocationBody(<<"a", "a">>, Undefined, Undefined, Undefined, <<>>,
                   target[1], target[2])

DeleteBody(target) ==
    AllocationBody(<<>>, Undefined, Undefined, Undefined, <<>>,
                   target[1], target[2])

InitAllocations ==
    /\ store = AllocationStore
    /\ today = 1
    /\ last = Response("none", {}, FALSE, 0, <<>>, <<>>)
    /\ pf = PfIdle
    /\ hs = HsIdle
    /\ rt = RtIdle /\ race = RaceIdle /\ sess = SessIdle

NextAllocations ==
    \/ \E r \in RequestInputs(today), slug \in AllocationSlugs,
          target \in AllocationTargets :
           EditAllocation(r.cookies, slug, EditBody(target), ProviderGood, r.db)
    \/ \E r \in RequestInputs(today), slug \in AllocationSlugs,
          target \in AllocationTargets :
           DeleteAllocation(r.cookies, slug, DeleteBody(target), r.db)

SpecAllocations == InitAllocations /\ [][NextAllocations]_vars

\* -------------------------------- admin writes and the portfolio request

\* data/investors.json holding the records of a stored document
FileOf(investors) ==
    [i \in DOMAIN investors |->
        [name |-> investors[i].name,
         allocations |->
             [k \in DOMAIN investors[i].allocations |->
                 FileAllocation(investors[i].allocations[k].symbol,
                                R(investors[i].allocations[k].invested),
                                Nothing,
                                R(investors[i].allocations[k].shares),
                                DateAt(1))]]]

\* the portfolio request to come: the file as it is deployed, the provider
\* answering for the symbol of the file
PortfolioOverFile(file) ==
    [apiKey |-> TRUE, now |-> NowSeconds, file |-> file,
     quote |-> (SymbolA :> QuoteOf(R(1))),
     candle |-> (SymbolA :> CandleDown),
     profile |-> (SymbolA :> ProfileDown)]

\* the file and the document start with the same records
InitReadWrite ==
    /\ store \in InitStores
    /\ today = 1
    /\ last = Response("none", {}, FALSE, 0, <<>>, <<>>)
    /\ pf = [phase |-> "ready",
             input |-> PortfolioOverFile(FileOf(store.investors))]
    /\ hs = HsIdle
    /\ rt = RtIdle /\ race = RaceIdle /\ sess = SessIdle

NextReadWrite ==
    \/ \E n \in NameInputs : CreateInvestor({TodayKey(today)}, n, "ok")
    \/ \E g \in SlugInputs, n \in NameInputs :
           RenameInvestor({TodayKey(today)}, g, n, "ok")
    \/ \E g \in SlugInputs : DeleteInvestor({TodayKey(today)}, g, "ok")
    \/ \E g \in SlugInputs, a \in AddInputs :
           AddAllocation({TodayKey(today)}, g, a.body, a.provider, "ok")
    \/ \E g \in SlugInputs, e \in EditInputs :
           EditAllocation({TodayKey(today)}, g, e.body, e.provider, "ok")
    \/ \E g \in SlugInputs, b \in DeleteBodies :
           DeleteAllocation({TodayKey(today)}, g, b, "ok")
    \/ GetPortfolio

SpecReadWrite == InitReadWrite /\ [][NextReadWrite]_vars

\* --------------------------------------------------- the history requests

YahooDown == [net |-> "notOk", timestamps |-> <<>>, adj |-> <<>>, close |-> <<>>]

YahooThrows ==
    [net |-> "throws", timestamps |-> <<>>, adj |-> <<>>, close |-> <<>>]

YahooAnswers ==
    {YahooDown, YahooThrows}
    \cup {[net |-> "ok", timestamps |-> t, adj |-> adj, close |-> close] :
            t \in {<<>>, <<1>>, <<1, 2>>},
            adj \in {<<>>, <<R(1), Nothing>>, <<R(1), R(2)>>},
            close \in {<<>>, <<R(2), R(2)>>}}

RangeFailure(net, status) ==
    [net |-> net, status |-> status, s |-> "", c |-> <<>>, t |-> <<>>]

\* the answers of the keyed provider: a thrown fetch, 403, 429, 500, no_data,
\* and series of 0 to MaxTime + 1 points, the last close possibly missing
RangeAnswers ==
    {RangeFailure("throws", 0), RangeFailure("ok", 403),
     RangeFailure("ok", 429), RangeFailure("ok", 500),
     [net |-> "ok", status |-> 200, s |-> "no_data", c |-> <<>>, t |-> <<>>]}
    \cup UNION {{[net |-> "ok", status |-> 200, s |-> "ok",
                  c |-> c, t |-> [i \in 1..n |-> i]] :
                    c \in [1..n -> Prices]
                          \cup [1..(n - 1) -> Prices]} :
                n \in 0..(MaxTime + 1)}

HistoryQuoteAnswers ==
    {[net |-> "throws", status |-> 0, json |-> FALSE,
      c |-> Nothing, pc |-> Nothing],
     [net |-> "ok", status |-> 429, json |-> FALSE,
      c |-> Nothing, pc |-> Nothing],
     [net |-> "ok", status |-> 200, json |-> FALSE,
      c |-> Nothing, pc |-> Nothing]}
    \cup {[net |-> "ok", status |-> 200, json |-> TRUE, c |-> c, pc |-> pc] :
            c \in {Nothing} \cup Prices, pc \in {Nothing, R(1)}}

HistoryRequest(symbol, apiKey) ==
    [phase |-> "start", symbol |-> symbol, apiKey |-> apiKey,
     now |-> NowSeconds, normalized |-> <<>>, history |-> Nothing,
     lastStatus |-> Nothing, rangeIndex |-> 0, yahooFailed |-> FALSE,
     returned |-> {}, calls |-> <<>>, caught |-> FALSE,
     response |-> [status |-> 0, history |-> Nothing, error |-> FALSE]]

InitHistory ==
    /\ store = [exists |-> FALSE, investors |-> <<>>]
    /\ today = 1
    /\ last = Response("none", {}, FALSE, 0, <<>>, <<>>)
    /\ pf = PfIdle
    /\ rt = RtIdle /\ race = RaceIdle /\ sess = SessIdle
    /\ \E symbol \in {<<>>, <<"a">>}, apiKey \in BOOLEAN :
          hs = HistoryRequest(symbol, apiKey)

NextHistory ==
    \/ HistoryBegin
    \/ \E answer \in YahooAnswers : HistoryYahoo(answer)
    \/ \E answer \in RangeAnswers : HistoryRange(answer)
    \/ \E answer \in HistoryQuoteAnswers : HistoryQuote(answer)

SpecHistory == InitHistory /\ [][NextHistory]_vars

\* ----------------------------------------------------- the quote requests

QuoteBody(c, pc, t) ==
    [c |-> c, pc |-> pc, t |-> t, d |-> Nothing,
     h |-> c, l |-> c, o |-> pc]

QuoteBodies ==
    {QuoteBody(c, pc, t) :
        c \in {Nothing} \cup Prices,
        pc \in {Nothing} \cup Prices,
        t \in {Nothing} \cup {R(i) : i \in 0..MaxTime}}

QuoteFetches ==
    {[net |-> "throws", status |-> 0, body |-> QuoteBody(Nothing, Nothing, Nothing)],
     [net |-> "ok", status |-> 429, body |-> QuoteBody(Nothing, Nothing, Nothing)]}
    \cup {[net |-> "ok", status |-> 200, body |-> body] : body \in QuoteBodies}

ProfileFetches ==
    {[net |-> "throws", status |-> 0, json |-> FALSE, body |-> [name |-> Nothing]],
     [net |-> "ok", status |-> 403, json |-> FALSE, body |-> [name |-> Nothing]],
     [net |-> "ok", status |-> 200, json |-> FALSE, body |-> [name |-> Nothing]],
     [net |-> "ok", status |-> 200, json |-> TRUE, body |-> [name |-> Nothing]],
     [net |-> "ok", status |-> 200, json |-> TRUE, body |-> [name |-> <<"n">>]]}

RouteCall(fn, input) ==
    [phase |-> "ready", fn |-> fn, input |-> input, output |-> Nothing]

InitQuote ==
    /\ store = [exists |-> FALSE, investors |-> <<>>]
    /\ today = 1
    /\ last = Response("none", {}, FALSE, 0, <<>>, <<>>)
    /\ pf = PfIdle /\ hs = HsIdle /\ race = RaceIdle /\ sess = SessIdle
    /\ \E symbol \in {<<>>, <<"a">>}, apiKey \in BOOLEAN,
          quote \in QuoteFetches, profile \in ProfileFetches :
          rt = RouteCall("quote", [symbol |-> symbol, apiKey |-> apiKey,
                                   quote |-> quote, profile |-> profile])

NextQuote == GetQuote

SpecQuote == InitQuote /\ [][NextQuote]_vars

\* ---------------------------------------------------- the search requests

\* the n-letter symbol in lower and in upper case
RECURSIVE Letters(_, _)
Letters(ch, n) == IF n = 0 THEN <<>> ELSE <<ch>> \o Letters(ch, n - 1)

ItemTypes == <<<<"Common Stock">>, <<>>, <<"ETF">>, <<"EQS">>>>

\* the item the provider lists at position i: a listed company with a fresh
\* symbol, the symbol of the position before in the other case, or an item
\* the route has to skip (which one depends on the position)
ProviderItem(i, kind) ==
    LET fresh == [symbol |-> Letters("a", i), description |-> <<"d">>,
                  type |-> ItemTypes[(i % Len(ItemTypes)) + 1]]
    IN  CASE kind = "listed" -> fresh
          [] kind = "again" ->
                [fresh EXCEPT !.symbol = IF i = 1 THEN Letters("A", 1)
                                         ELSE Letters("A", i - 1)]
          [] kind = "other" ->
                CASE i % 6 = 0 -> [fresh EXCEPT !.symbol = @ \o <<".">>]
                  [] i % 6 = 1 -> [fresh EXCEPT !.symbol = <<":">> \o @]
                  [] i % 6 = 2 -> [fresh EXCEPT !.symbol = @ \o <<"/", "a">>]
                  [] i % 6 = 3 -> [fresh EXCEPT !.description = <<>>]
                  [] i % 6 = 4 -> [fresh EXCEPT !.type = <<"Crypto">>]
                  [] i % 6 = 5 -> [fresh EXCEPT !.symbol = <<>>]

ItemKinds == {"listed", "again", "other"}

SearchInput(q, apiKey, net, status, isArray, result) ==
    [q |-> q, apiKey |-> apiKey, net |-> net, status |-> status,
     isArray |-> isArray, result |-> result]

InitSearch ==
    /\ store = [exists |-> FALSE, investors |-> <<>>]
    /\ today = 1
    /\ last = Response("none", {}, FALSE, 0, <<>>, <<>>)
    /\ pf = PfIdle /\ hs = HsIdle /\ race = RaceIdle /\ sess = SessIdle
    /\ \/ \E n \in {0, 1, MaxItems} : \E kinds \in [1..n -> ItemKinds] :
             rt = RouteCall("search",
                     SearchInput(<<"a">>, TRUE, "ok", 200, TRUE,
                         [i \in 1..n |-> ProviderItem(i, kinds[i])]))
       \/ \E q \in {<<>>, <<"a">>}, apiKey \in BOOLEAN,
             net \in {"ok", "throws"}, status \in {200, 429},
             isArray \in BOOLEAN :
             rt = RouteCall("search",
                     SearchInput(q, apiKey, net, status, isArray, <<>>))

NextSearch == GetSearch

SpecSearch == InitSearch /\ [][NextSearch]_vars

\* ----------------------------------------------- the holdings to display

\* a holding as GET /api/portfolio delivers it: valued, with change and
\* changePercent of its value and amount (changePercent null for amount 0),
\* or unvalued with these fields null
ValuedHolding(symbol, amount, value) ==
    [symbol |-> symbol, amountInvested |-> amount, shares |-> R(1),
     currentValue |-> value,
     change |-> Minus(value, amount),
     changePercent |->
         JsonNumber(Times(DividedBy(Minus(value, amount), amount), R(100)))]

UnvaluedHolding(symbol, amount) ==
    [symbol |-> symbol, amountInvested |-> amount, shares |-> Nothing,
     currentValue |-> Nothing, change |-> Nothing, changePercent |-> Nothing]

DeliveredHoldingInputs ==
    {ValuedHolding(symbol, amount, value) :
        symbol \in {SymbolA, SymbolAA}, amount \in Prices,
        value \in Prices \ {R(0)}}
    \cup {UnvaluedHolding(symbol, amount) :
        symbol \in {SymbolA, SymbolAA}, amount \in Prices}

InitMerge ==
    /\ store = [exists |-> FALSE, investors |-> <<>>]
    /\ today = 1
    /\ last = Response("none", {}, FALSE, 0, <<>>, <<>>)
    /\ pf = PfIdle /\ hs = HsIdle /\ race = RaceIdle /\ sess = SessIdle
    /\ \E h1, h2, h3 \in DeliveredHoldingInputs : \E n \in 0..3 :
          rt = RouteCall("mergeHoldings", SubSeq(<<h1, h2, h3>>, 1, n))

NextMerge == CallMergeHoldings

SpecMerge == InitMerge /\ [][NextMerge]_vars

\* ================================================================== claims

WriteOps ==
    {"createInvestor", "renameInvestor", "deleteInvestor",
     "addAllocation", "editAllocation", "deleteAllocation"}

\* the request in `last` presented the cookie named after the day it was handled
PresentedTodaysToken == TodayKey(today) \in last.cookies

AllAllocations ==
    UNION {{store.investors[i].allocations[j] :
               j \in DOMAIN store.investors[i].allocations} :
              i \in DOMAIN store.investors}

\* C1: a write request that does not present the cookie named after today's
\* date is answered 401 and the stored investors document is left as it was,
\* for each of the six admin write handlers.
C1_UnauthorizedWriteRejected ==
    [][(last'.op \in WriteOps /\ TodayKey(today') \notin last'.cookies)
          => (last'.status = 401 /\ store' = store)]_vars

\* a write request that presented only a stale day's cookie (and the undated
\* legacy cookie) was answered 401
C1_Witness ==
    /\ last.op \in WriteOps
    /\ last.cookies # {}
    /\ ~PresentedTodaysToken
    /\ last.status = 401

\* C2: an authorized create whose trimmed name equals a stored investor's name
\* ignoring case is answered 409 (no database call having thrown) and the
\* stored investors list is exactly what it was.
C2_DuplicateCreateConflict ==
    [][(/\ last'.op = "createInvestor"
        /\ TodayKey(today') \in last'.cookies
        /\ ~last'.dbThrew
        /\ \E i \in DOMAIN store.investors :
               ToLowerCase(store.investors[i].name) = ToLowerCase(Trim(last'.name)))
          => (last'.status = 409 /\ store'.investors = store.investors)]_vars

\* a create was answered 409 for a name that differs from the stored one in
\* case (and in surrounding whitespace) only
C2_Witness ==
    /\ last.op = "createInvestor"
    /\ last.status = 409
    /\ \E i \in DOMAIN store.investors :
           /\ ToLowerCase(store.investors[i].name) = ToLowerCase(Trim(last.name))
           /\ store.investors[i].name # last.name
           /\ store.investors[i].name # Trim(last.name)

\* C3: no two stored investors have the same slug, in every state reached from
\* a store whose slugs are pairwise distinct.
C3_SlugsPairwiseDistinct ==
    \A i, j \in DOMAIN store.investors :
        i # j => slugify(store.investors[i].name) # slugify(store.investors[j].name)

\* C4: every persisted allocation has an invested amount > 0 and a share count
\* > 0, and an add or edit that carries a non-positive amount or share count
\* is not accepted.
C4_AllocationsPositive ==
    /\ \A a \in AllAllocations : a.invested > 0 /\ a.shares > 0
    /\ (/\ last.op \in {"addAllocation", "editAllocation"}
        /\ last.nonPositive)
          => last.status # 200

\* C5: an allocation write that sets a symbol (an add, or an edit that changes
\* the symbol) is accepted only if the quote provider reports a positive
\* current price for the symbol.
C5_SymbolValidatedAtWrite ==
    (/\ last.op \in {"addAllocation", "editAllocation"}
     /\ last.setsSymbol
     /\ last.status = 200)
        => last.symbolOk

\* the investors and the holdings of a delivered portfolio
PortfolioDelivered == pf.phase = "done" /\ pf.response.status = 200

DeliveredInvestors ==
    IF PortfolioDelivered
    THEN {pf.response.investors[k] : k \in DOMAIN pf.response.investors}
    ELSE {}

DeliveredHoldings ==
    UNION {{v.holdings[j] : j \in DOMAIN v.holdings} : v \in DeliveredInvestors}

IsValued(h) == h.currentValue # Nothing

RECURSIVE ExpectedCurrentValue(_)
ExpectedCurrentValue(holdings) ==
    IF holdings = <<>> THEN R(0)
    ELSE Plus(IF IsValued(Head(holdings)) THEN Head(holdings).currentValue
              ELSE Head(holdings).amountInvested,
              ExpectedCurrentValue(Tail(holdings)))

RECURSIVE ExpectedTotalInvested(_)
ExpectedTotalInvested(holdings) ==
    IF holdings = <<>> THEN R(0)
    ELSE Plus(Head(holdings).amountInvested,
              ExpectedTotalInvested(Tail(holdings)))

\* C6: for every investor of the GET /portfolio result, currentValue is the
\* sum over its holdings of the holding's currentValue when that is resolved
\* and of its amountInvested otherwise, and totalInvested is the sum of the
\* holdings' amountInvested.
C6_InvestorTotals ==
    \A v \in DeliveredInvestors :
        /\ v.currentValue = ExpectedCurrentValue(v.holdings)
        /\ v.totalInvested = ExpectedTotalInvested(v.holdings)

\* an investor with a valued holding worth more than was invested beside a
\* holding that could not be valued
C6_Witness ==
    \E v \in DeliveredInvestors :
        \E i, j \in DOMAIN v.holdings :
            /\ IsValued(v.holdings[i])
            /\ Greater(v.holdings[i].currentValue, v.holdings[i].amountInvested)
            /\ ~IsValued(v.holdings[j])
            /\ Greater(v.holdings[j].amountInvested, R(0))
            /\ v.currentValue = Plus(v.holdings[i].currentValue,
                                     v.holdings[j].amountInvested)

\* C7: for every holding whose share count is resolved and positive and
\* whose current price is resolved, currentValue is shares x currentPrice,
\* for every resolved price over the non-negative inputs.
C7_ValueIsSharesTimesPrice ==
    \A h \in DeliveredHoldings :
        (h.shares # Nothing /\ Greater(h.shares, R(0))
            /\ h.currentPrice # Nothing)
        => h.currentValue = Times(h.shares, h.currentPrice)

\* C8: a holding's changePercent is null whenever its amountInvested is 0,
\* with or without a resolved share count; when amountInvested is not 0 and
\* the holding is valued, changePercent is (change / amountInvested) x 100.
C8_ChangePercent ==
    \A h \in DeliveredHoldings :
        /\ h.amountInvested = R(0) => h.changePercent = Nothing
        /\ (h.amountInvested # R(0) /\ IsValued(h))
           => /\ h.change = Minus(h.currentValue, h.amountInvested)
              /\ h.changePercent =
                     Times(DividedBy(h.change, h.amountInvested), R(100))

\* a valued holding with nothing invested, its changePercent delivered as
\* null, beside the case of a valued holding with a positive amount
C8_Witness ==
    \E h \in DeliveredHoldings :
        /\ h.amountInvested = R(0)
        /\ IsValued(h)
        /\ h.shares # Nothing
        /\ h.change # Nothing /\ Greater(h.change, R(0))
        /\ h.changePercent = Nothing

\* the history the portfolio holds for the symbol of a holding, and the
\* second of the holding's purchase
HistoryOfHolding(h) == fetchCandle(pf.input.candle[h.symbol])

PurchaseSecond(h) == DateSeconds(h.dateInvested)

PointsAtOrAfter(history, second) ==
    {i \in DOMAIN history : second # <<>> /\ history[i].time >= second[1]}

ExpectedStartPrice(history, second) ==
    LET later == PointsAtOrAfter(history, second)
    IN  IF later # {}
        THEN history[CHOOSE i \in later : \A j \in later : i <= j].close
        ELSE history[1].close

StartPriceAsSpecified(h) ==
    HistoryOfHolding(h) # <<>>
    => h.startPrice = ExpectedStartPrice(HistoryOfHolding(h), PurchaseSecond(h))

NoPositivePersistedShares(h) ==
    h.sharesFromFile = Nothing \/ ~Greater(h.sharesFromFile, R(0))

\* C9 as stated: with a non-empty ascending history the start price is the
\* close of the first point at or after the purchase timestamp, else of the
\* earliest point; without a positive persisted share count, shares is
\* amountInvested / startPrice.
C9_StartPriceAndShares ==
    \A h \in DeliveredHoldings :
        /\ StartPriceAsSpecified(h)
        /\ (HistoryOfHolding(h) # <<>> /\ NoPositivePersistedShares(h))
           => h.shares = DividedBy(h.amountInvested, h.startPrice)

\* C9 amended: the start price as stated; without a positive persisted share
\* count, shares is amountInvested / startPrice when the start price and the
\* amount are both positive, and unresolved otherwise.
C9_StartPriceAndSharesWhenPositive ==
    \A h \in DeliveredHoldings :
        /\ StartPriceAsSpecified(h)
        /\ (HistoryOfHolding(h) # <<>> /\ NoPositivePersistedShares(h))
           => h.shares =
                 IF Greater(h.startPrice, R(0)) /\ Greater(h.amountInvested, R(0))
                 THEN DividedBy(h.amountInvested, h.startPrice)
                 ELSE Nothing

\* a holding bought on the day of the second history point, priced at that
\* point and not at the earlier one, its shares derived from the amount
C9_Witness ==
    \E h \in DeliveredHoldings :
        LET history == HistoryOfHolding(h)
        IN  /\ Len(history) >= 2
            /\ PurchaseSecond(h) = <<history[2].time>>
            /\ history[1].close # history[2].close
            /\ h.startPrice = history[2].close
            /\ NoPositivePersistedShares(h)
            /\ h.shares = DividedBy(h.amountInvested, h.startPrice)
            /\ h.shares # R(1)

HistoryAnswered == hs.phase = "done"

TwoPointSeries == {points \in hs.returned : Len(points) = 2}

\* C10: in GET /history, when the key-less provider fails, the API key is
\* configured and the keyed provider returns exactly 2 points for a day
\* range, the response is a success carrying exactly those 2 points.
C10_TwoPointRangeAccepted ==
    (HistoryAnswered /\ hs.yahooFailed /\ hs.apiKey)
    => \A points \in TwoPointSeries :
          /\ hs.response.status = 200
          /\ ~hs.response.error
          /\ hs.response.history = points

\* the keyed provider gave nothing usable for the first ranges and 2 points
\* for a later one, and those are the response
C10_Witness ==
    /\ HistoryAnswered /\ hs.yahooFailed /\ hs.apiKey
    /\ hs.rangeIndex > 1
    /\ \E points \in TwoPointSeries :
          /\ hs.response.history = points
          /\ hs.response.status = 200

HistoryUnresolved == HistoryAnswered /\ hs.response.history = Nothing

\* C11: when no step of the fallback chain yields a series, GET /history
\* answers 429 if the last status of the keyed provider was 403 or 429 and
\* 404 in every other case, never a 2xx status (stated here for requests
\* that carry a symbol and did not end in the handler's catch).
C11_UnresolvedIs404Or429 ==
    (HistoryUnresolved /\ hs.symbol # <<>> /\ ~hs.caught)
    => /\ hs.response.status =
              IF hs.lastStatus \in {<<403>>, <<429>>} THEN 429 ELSE 404
       /\ ~IsOk(hs.response.status)

SomeCallThrew == \E i \in DOMAIN hs.calls : hs.calls[i].threw

\* C12: a fetch that throws in any step of the resolver (key-less provider,
\* a keyed range, the quote) counts as that step having failed: the request
\* ends with a series or with 404/429, never in the exception path.
C12_ThrownFetchIsStepFailure ==
    (HistoryAnswered /\ SomeCallThrew)
    => /\ ~hs.caught
       /\ hs.response.history # Nothing \/ hs.response.status \in {404, 429}

RangeOrder == <<450, 400, 365, 240, 120, 60>>

EarlierRangesFailed(i) ==
    \A j \in 2..(i - 1) : hs.calls[j].step = "range" /\ hs.calls[j].points < 2

\* C13: the providers are contacted strictly in order and only after the
\* previous step failed: the key-less provider first; a keyed call only when
\* it yielded fewer than 2 points and an API key is configured; the ranges
\* in the order 450, 400, 365, 240, 120, 60, none after one that returned at
\* least 2 points; the quote only after all six ranges failed.
C13_ProvidersInOrder ==
    \A i \in DOMAIN hs.calls :
        LET call == hs.calls[i]
        IN  /\ (call.step = "yahoo") = (i = 1)
            /\ call.step \in {"yahoo", "range", "quote"}
            /\ call.step # "yahoo"
               => hs.apiKey /\ hs.calls[1].points < 2 /\ EarlierRangesFailed(i)
            /\ call.step = "range"
               => i - 1 \in DOMAIN RangeOrder /\ call.days = RangeOrder[i - 1]
            /\ call.step = "quote" => i = Len(RangeOrder) + 2

\* a request that went through the whole chain: the key-less provider, the
\* six ranges in order and the quote
C13_Witness ==
    /\ HistoryAnswered
    /\ Len(hs.calls) = Len(RangeOrder) + 2
    /\ hs.calls[Len(hs.calls)].step = "quote"
    /\ \A r \in DOMAIN RangeOrder : hs.calls[r + 1].days = RangeOrder[r]
    /\ \E r \in DOMAIN RangeOrder : hs.calls[r + 1].points = 1

QuoteAnswered == rt.phase = "done" /\ rt.fn = "quote"

\* the handler received both provider responses and the quote's was ok
QuoteObtained ==
    /\ QuoteAnswered
    /\ rt.input.symbol # <<>> /\ rt.input.apiKey
    /\ rt.input.quote.net = "ok" /\ rt.input.profile.net = "ok"
    /\ IsOk(rt.input.quote.status)

NoDataQuote(body) ==
    /\ body.c \in {Nothing, R(0)}
    /\ body.pc = R(0)
    /\ body.t \in {Nothing, R(0)}

\* C14: GET /quote answers 404, never a quote with price 0, whenever the
\* provider's quote has current price null or 0 together with previous
\* close 0 and timestamp 0 or null.
C14_NoDataQuoteIs404 ==
    (QuoteObtained /\ NoDataQuote(rt.input.quote.body))
    => rt.output.status = 404 /\ rt.output.error

\* a quote with price 0, previous close 0 and no timestamp, answered 404
C14_Witness ==
    /\ QuoteObtained
    /\ rt.input.quote.body.c = R(0)
    /\ rt.input.quote.body.pc = R(0)
    /\ rt.input.quote.body.t = Nothing
    /\ rt.output.status = 404

SearchDelivered ==
    rt.phase = "done" /\ rt.fn = "search" /\ rt.output.status = 200

KeptItem(item) == ~SkippedItem(item)

\* the provider's list without the items to skip and without an item whose
\* upper-cased symbol an earlier kept item has
FirstOfItsSymbol(items, i) ==
    /\ KeptItem(items[i])
    /\ \A j \in 1..(i - 1) :
          KeptItem(items[j])
          => ToUpperCase(items[j].symbol) # ToUpperCase(items[i].symbol)

RECURSIVE Listing(_, _)
Listing(items, i) ==
    IF i > Len(items) THEN <<>>
    ELSE (IF FirstOfItsSymbol(items, i) THEN <<items[i]>> ELSE <<>>)
         \o Listing(items, i + 1)

\* C15: for every provider list, GET /search returns at most 8 results with
\* pairwise distinct symbols, none containing '.', ':' or '/'; the list is
\* the first 8 entries, in provider order, of the provider list after
\* filtering and de-duplication by symbol.
C15_SearchResults ==
    SearchDelivered =>
        LET results == rt.output.results
            listing == Listing(rt.input.result, 1)
        IN  /\ Len(results) <= 8
            /\ \A i, j \in DOMAIN results :
                  i # j => results[i].symbol # results[j].symbol
            /\ \A i \in DOMAIN results :
                  ~\E ch \in {".", ":", "/"} : Includes(results[i].symbol, ch)
            /\ Len(results) = IF Len(listing) < 8 THEN Len(listing) ELSE 8
            /\ \A i \in DOMAIN results :
                  /\ results[i].symbol = ToUpperCase(listing[i].symbol)
                  /\ results[i].description = listing[i].description
                  /\ results[i].type = listing[i].type

\* a provider list of more than 8 listed companies with, among the first
\* of them, an item that is skipped or one that repeats a symbol
C15_Witness ==
    /\ SearchDelivered
    /\ Len(Listing(rt.input.result, 1)) > 8
    /\ Len(rt.output.results) = 8
    /\ \E i \in 2..8 :
          \/ SkippedItem(rt.input.result[i])
          \/ KeptItem(rt.input.result[i])
             /\ ~FirstOfItsSymbol(rt.input.result, i)
    /\ KeptItem(rt.input.result[Len(rt.input.result)])

MergeDone == rt.phase = "done" /\ rt.fn = "mergeHoldings"

ValueOrCostOf(h) ==
    IF h.currentValue # Nothing THEN h.currentValue ELSE h.amountInvested

RECURSIVE AmountOfSymbol(_, _)
AmountOfSymbol(holdings, symbol) ==
    IF holdings = <<>> THEN R(0)
    ELSE Plus(IF Head(holdings).symbol = symbol
              THEN Head(holdings).amountInvested ELSE R(0),
              AmountOfSymbol(Tail(holdings), symbol))

RECURSIVE ValueOfSymbol(_, _)
ValueOfSymbol(holdings, symbol) ==
    IF holdings = <<>> THEN R(0)
    ELSE Plus(IF Head(holdings).symbol = symbol
              THEN ValueOrCostOf(Head(holdings)) ELSE R(0),
              ValueOfSymbol(Tail(holdings), symbol))

\* C16: mergeHoldings gives exactly one display holding per distinct
\* symbol; its amountInvested is the sum of the merged allocations' amounts,
\* its currentValue the sum of their current values (the amount standing in
\* for an unresolved one), its change currentValue - amountInvested and,
\* for a non-zero amountInvested, its changePercent change / amountInvested
\* x 100 (null for amountInvested 0).
C16_MergedHoldings ==
    MergeDone =>
        LET out == rt.output
            given == rt.input
        IN  /\ \A i, j \in DOMAIN out : i # j => out[i].symbol # out[j].symbol
            /\ {out[i].symbol : i \in DOMAIN out}
                  = {given[i].symbol : i \in DOMAIN given}
            /\ \A i \in DOMAIN out :
                  LET h == out[i]
                  IN  /\ h.amountInvested = AmountOfSymbol(given, h.symbol)
                      /\ h.currentValue
                            = ValueOfSymbol(given, h.symbol)
                      /\ h.change = Minus(h.currentValue, h.amountInvested)
                      /\ h.changePercent =
                            IF h.amountInvested # R(0)
                            THEN Times(DividedBy(h.change, h.amountInvested),
                                       R(100))
                            ELSE Nothing

\* two holdings of one symbol, one valued above its cost and one unvalued,
\* merged into one display holding beside a holding of another symbol
C16_Witness ==
    /\ MergeDone
    /\ Len(rt.input) = 3 /\ Len(rt.output) = 2
    /\ \E i, j \in DOMAIN rt.input :
          /\ i # j /\ rt.input[i].symbol = rt.input[j].symbol
          /\ rt.input[i].currentValue # Nothing
          /\ Greater(rt.input[i].currentValue, rt.input[i].amountInvested)
          /\ rt.input[j].currentValue = Nothing
          /\ Greater(rt.input[j].amountInvested, R(0))
          /\ \E k \in DOMAIN rt.output :
                /\ rt.output[k].symbol = rt.input[i].symbol
                /\ Greater(rt.output[k].change, R(0))
                /\ rt.output[k].changePercent # Nothing

\* the words of a name: its maximal runs of characters that are not
\* whitespace, in order
RECURSIVE Words(_, _)
Words(name, word) ==
    IF name = <<>> THEN (IF word = <<>> THEN <<>> ELSE <<word>>)
    ELSE IF IsSpace(Head(name))
         THEN (IF word = <<>> THEN <<>> ELSE <<word>>) \o Words(Tail(name), <<>>)
    ELSE Words(Tail(name), Append(word, Head(name)))

RECURSIVE Hyphenated(_)
Hyphenated(words) ==
    IF words = <<>> THEN <<>>
    ELSE IF Len(words) = 1 THEN words[1]
    ELSE words[1] \o <<"-">> \o Hyphenated(Tail(words))

LowerCased(ch) == IF ch = "A" THEN "a" ELSE ch

ExpectedSlug(name) ==
    LET joined == Hyphenated(Words(name, <<>>))
    IN  [i \in DOMAIN joined |-> LowerCased(joined[i])]

\* C17: the slug of an investor is its name trimmed, lowercased and with
\* every run of whitespace replaced by one hyphen, all other characters
\* unchanged; create returns the slug of the new name and rename the slug
\* recomputed from the new name.
C17_SlugOfName ==
    (last.op \in {"createInvestor", "renameInvestor"} /\ last.status = 200)
    => last.slug = ExpectedSlug(last.name)

\* a rename to a name in upper case with a run of two blanks, answered with
\* the slug of the new name
C17_Witness ==
    /\ last.op = "renameInvestor" /\ last.status = 200
    /\ \E i \in DOMAIN last.name :
          i > 1 /\ IsSpace(last.name[i]) /\ IsSpace(last.name[i - 1])
    /\ \E i \in DOMAIN last.name : last.name[i] = "A"
    /\ last.slug = <<"a", "-", "a">>

\* the portfolio request has been answered behind its fetches
FetchDone == pf.phase = "done" /\ pf.input.apiKey

\* the holdings of the answer behind the fetches, over all investors
FetchedHoldings ==
    UNION {{pf.response.investors[k].holdings[j] :
               j \in DOMAIN pf.response.investors[k].holdings} :
           k \in DOMAIN pf.response.investors}

\* C18: in GET /portfolio, whatever the order in which the concurrent quote,
\* candle and profile fetches complete, the entry of each result array at the
\* index of a symbol is what was fetched for that symbol, each holding shows
\* the name and the quote of its own symbol, and the response (investors,
\* holdings and symbols, in order) is the one the input determines.
C18_FetchesMatchedBySymbol ==
    FetchDone =>
        /\ \A kind \in FetchKinds, i \in DOMAIN pf.symbols :
               pf.results[kind][i] = FetchResult(pf.input, kind, pf.symbols[i])
        /\ \A h \in FetchedHoldings :
               LET profile == fetchProfile(pf.input.profile[h.symbol])
                   quote == PositiveQuote(fetchQuote(pf.input.quote[h.symbol]))
               IN  /\ profile # Nothing => h.name = OrElse(profile.name, h.symbol)
                   /\ quote # Nothing => h.currentPrice = JsonNumber(quote)
        /\ pf.response = PortfolioResponse(pf.input)

\* every fetch of the second symbol completed before the same fetch of the
\* first, and the two symbols were answered differently
C18_Witness ==
    /\ FetchDone
    /\ Len(pf.symbols) = 2
    /\ \A kind \in FetchKinds :
           \E p, q \in DOMAIN pf.order :
               p < q /\ pf.order[p] = <<kind, 2>> /\ pf.order[q] = <<kind, 1>>
    /\ \A kind \in FetchKinds :
           FetchResult(pf.input, kind, pf.symbols[1])
               # FetchResult(pf.input, kind, pf.symbols[2])
    /\ PositiveQuote(fetchQuote(pf.input.quote[pf.symbols[1]])) # Nothing

\* both write requests are answered
RaceDone == race.phase = "running" /\ \A p \in 1..2 : race.proc[p].pc = "done"

\* both requests read the document before either wrote, and both wrote
BothReadBeforeEitherWrote ==
    /\ Len(race.order) = 4
    /\ race.order[1][2] = "read" /\ race.order[2][2] = "read"

EarlierWriter == race.order[3][1]

LaterWriter == race.order[4][1]

\* the document shows the change of a request: the created name is there, the
\* deleted investor is not
Reflects(request, investors) ==
    IF request.op = "createInvestor"
    THEN \E i \in DOMAIN investors : investors[i].name = Trim(request.name)
    ELSE findInvestorIndex(investors, request.slug) = -1

\* the two requests ask for the same change of the document they read
SameChange ==
    BuiltInvestors(race.request[1], race.before)
        = BuiltInvestors(race.request[2], race.before)

\* C19: store writes are last-writer-wins: when two admin write requests both
\* read the investors document before either writes, both are answered with
\* success, the final document is the one built from the later writer's
\* snapshot, and the change of the earlier writer, unless the later writer
\* made the same change, is not in it.
C19_LastWriterWins ==
    (RaceDone /\ BothReadBeforeEitherWrote) =>
        /\ \A p \in 1..2 : race.proc[p].status = 200
        /\ race.proc[LaterWriter].read = race.before
        /\ store.investors =
               BuiltInvestors(race.request[LaterWriter], race.before)
        /\ ~SameChange => ~Reflects(race.request[EarlierWriter], store.investors)

\* a create and a delete, the create written first: the created investor is
\* acknowledged and gone
C19_Witness ==
    /\ RaceDone /\ BothReadBeforeEitherWrote
    /\ race.request[EarlierWriter].op = "createInvestor"
    /\ race.request[LaterWriter].op = "deleteInvestor"
    /\ race.proc[EarlierWriter].status = 200
    /\ store.investors = <<>>

\* the login answered last: 200 and the cookie exactly when the password
\* matched, else 401
LoginIssuesOnMatch ==
    sess.last.op = "login" =>
        /\ sess.last.matched => (sess.last.status = 200 /\ sess.last.setCookie # {})
        /\ ~sess.last.matched => (sess.last.status = 401 /\ sess.last.setCookie = {})

\* the request answered last presented the issued token: it passed when made
\* on the server-local day of the issue, and was rejected on a later one
TokenGoodForLocalDay ==
    \A t \in sess.issued :
        (sess.last.op \in Clients /\ t.name \in sess.last.cookies) =>
            /\ LocalDay(sess.last.at, sess.offset) = LocalDay(t.at, sess.offset)
                   => sess.last.status = 200
            /\ LocalDay(sess.last.at, sess.offset) > LocalDay(t.at, sess.offset)
                   => sess.last.status = 401

\* the browser's write answered last came after a logout with no login since:
\* it was rejected
RejectedAfterLogout ==
    (sess.last.op = "browser" /\ sess.loggedOut) => sess.last.status = 401

\* C20: POST /admin/login issues the day-scoped token cookie only when the
\* password matches (otherwise 401 and no cookie); a request presenting the
\* issued token passes the admin gate at every instant from the issue to the
\* end of the server-local day and is rejected on any later day; after POST
\* /admin/logout the browser's writes are rejected until a new login.
C20_DayScopedToken ==
    sess.phase = "running" =>
        /\ LoginIssuesOnMatch
        /\ TokenGoodForLocalDay
        /\ RejectedAfterLogout

\* the investors array left of index i and right of it
Others(investors, i) ==
    <<SubSeq(investors, 1, i - 1), SubSeq(investors, i + 1, Len(investors))>>

\* another investor than the one at index i has the name, ignoring case
HeldByAnother(investors, i, name) ==
    \E k \in DOMAIN investors \ {i} :
        ToLowerCase(investors[k].name) = ToLowerCase(name)

\* what an authorized rename of the investor the slug resolves to must
\* answer and leave stored
RenameOutcome(before, after, status, slug, bodyName) ==
    LET i == findInvestorIndex(before, slug)
        name == Trim(bodyName)
    IN  IF name = <<>> THEN status = 400 /\ after = before
        ELSE IF i = -1 THEN status = 404 /\ after = before
        ELSE IF HeldByAnother(before, i, name) THEN status = 409 /\ after = before
        ELSE /\ status = 200
             /\ Len(after) = Len(before)
             /\ Others(after, i) = Others(before, i)
             /\ after[i].name = name
             /\ after[i].allocations = before[i].allocations

\* what an authorized delete of the investor the slug resolves to must answer
\* and leave stored
DeleteOutcome(before, after, status, slug) ==
    LET i == findInvestorIndex(before, slug)
    IN  IF i = -1 THEN status = 404 /\ after = before
        ELSE /\ status = 200
             /\ Len(after) = Len(before) - 1
             /\ after = Others(before, i)[1] \o Others(before, i)[2]

\* the request answered last carried today's token and its database calls
\* went through
AuthorizedAndStored == TodayKey(today) \in last.cookies /\ ~last.dbThrew

\* C21: rename and delete of an investor are all-or-nothing. An authorized
\* rename with an empty new name is answered 400, else with a slug that
\* resolves to no investor 404, else with a name another investor has
\* (ignoring case) 409; a delete with an unresolved slug 404; in each of
\* these cases, and whenever the answer is not a success, the stored investors
\* are unchanged. On success rename changes only the name of the target and
\* delete removes only the target: every other investor and all allocations
\* stay as they were.
C21_RenameDeleteAllOrNothing ==
    [][/\ (last'.op \in {"renameInvestor", "deleteInvestor"}
            /\ last'.status # 200)
           => store'.investors = store.investors
       /\ (last'.op = "renameInvestor" /\ AuthorizedAndStored')
           => \A slug \in SlugInputs :
                  RenameInvestor(last'.cookies, slug, last'.name, "ok")
                  => RenameOutcome(store.investors, store'.investors,
                                   last'.status, slug, last'.name)
       /\ (last'.op = "deleteInvestor" /\ AuthorizedAndStored')
           => \A slug \in SlugInputs :
                  DeleteInvestor(last'.cookies, slug, "ok")
                  => DeleteOutcome(store.investors, store'.investors,
                                   last'.status, slug)]_vars

\* a rename answered 409: the new name is held, in other letter case, by
\* another investor than the one the rename was for
C21_Witness ==
    /\ last.op = "renameInvestor" /\ last.status = 409
    /\ Len(store.investors) = 2
    /\ \E i \in DOMAIN store.investors :
           /\ ToLowerCase(store.investors[i].name) = ToLowerCase(Trim(last.name))
           /\ store.investors[i].name # Trim(last.name)

\* the allocation a body identifies among those of an investor: the first
\* with the id of the body, else the one at the position of the body, else
\* none (-1)
Identified(allocations, body) ==
    LET withId == {j \in DOMAIN allocations :
                      body.id # 0 /\ allocations[j].id = body.id}
        position == normalizeNumber(body.allocationIndex)
    IN  IF withId # {} THEN CHOOSE j \in withId : \A k \in withId : j <= k
        ELSE IF position.k = "number" /\ position.n \in 0..(Len(allocations) - 1)
        THEN position.n + 1
        ELSE -1

\* every investor but the one at index i is as before
OtherInvestorsKept(before, after, i) ==
    /\ Len(after) = Len(before)
    /\ \A k \in DOMAIN before \ {i} : after[k] = before[k]
    /\ after[i].name = before[i].name

\* the allocations of one investor after an edit of the one at index j
OnlyEdited(before, after, j) ==
    /\ Len(after) = Len(before)
    /\ \A k \in DOMAIN before \ {j} : after[k] = before[k]

\* the allocations of one investor after the delete of the one at index j
OnlyDeleted(before, after, j) ==
    after = SubSeq(before, 1, j - 1) \o SubSeq(before, j + 1, Len(before))

\* an edit (isEdit) or a delete that succeeded touched the allocation j of
\* the investor i and nothing else
ExactlyOne(before, after, i, j, isEdit) ==
    /\ OtherInvestorsKept(before, after, i)
    /\ IF isEdit
       THEN OnlyEdited(before[i].allocations, after[i].allocations, j)
       ELSE OnlyDeleted(before[i].allocations, after[i].allocations, j)

\* the outcome of an authorized edit or delete: 404 and nothing changed when
\* the slug resolves to no investor or the body identifies no allocation of
\* the investor, else 200 and exactly the identified allocation touched
AllocationOutcome(before, after, status, slug, body, isEdit) ==
    LET i == findInvestorIndex(before, slug)
        j == Identified(before[i].allocations, body)
    IN  IF i = -1 THEN status = 404 /\ after = before
        ELSE IF j = -1 THEN status = 404 /\ after = before
        ELSE status = 200 /\ ExactlyOne(before, after, i, j, isEdit)

\* the outcome as first stated: 404 and nothing changed when the slug
\* resolves to no investor or the id of the body is the id of no allocation
\* of the investor; a success touches exactly one allocation
OutcomeById(before, after, status, slug, body, isEdit) ==
    LET i == findInvestorIndex(before, slug)
        matched == {j \in DOMAIN before[i].allocations :
                       before[i].allocations[j].id = body.id}
    IN  /\ (i = -1 \/ (body.id # 0 /\ matched = {}))
              => (status = 404 /\ after = before)
        /\ status = 200
              => \E k \in DOMAIN before :
                    \E j \in DOMAIN before[k].allocations :
                        ExactlyOne(before, after, k, j, isEdit)

\* C22 as stated: an allocation edit or delete whose investor slug is
\* unresolved, or whose allocation id matches no allocation of the resolved
\* investor, is answered 404 and leaves every stored allocation unchanged; a
\* successful edit or delete affects exactly one allocation.
C22_UnmatchedIdIs404 ==
    [][/\ (last'.op = "editAllocation" /\ AuthorizedAndStored')
           => \A slug \in AllocationSlugs, target \in AllocationTargets :
                  EditAllocation(last'.cookies, slug, EditBody(target),
                                 ProviderGood, "ok")
                  => OutcomeById(store.investors, store'.investors,
                                 last'.status, slug, EditBody(target), TRUE)
       /\ (last'.op = "deleteAllocation" /\ AuthorizedAndStored')
           => \A slug \in AllocationSlugs, target \in AllocationTargets :
                  DeleteAllocation(last'.cookies, slug, DeleteBody(target), "ok")
                  => OutcomeById(store.investors, store'.investors,
                                 last'.status, slug, DeleteBody(target),
                                 FALSE)]_vars

\* C22: an allocation edit or delete whose investor slug is unresolved, or
\* whose body identifies no allocation of the resolved investor (its id is
\* the id of none and its allocationIndex is absent or out of range), is
\* answered 404 and leaves every stored allocation unchanged; a successful
\* edit or delete affects exactly the one identified allocation: the first
\* with the id, else the one at the position.
C22_UnidentifiedIs404 ==
    [][/\ (last'.op = "editAllocation" /\ AuthorizedAndStored')
           => \A slug \in AllocationSlugs, target \in AllocationTargets :
                  EditAllocation(last'.cookies, slug, EditBody(target),
                                 ProviderGood, "ok")
                  => AllocationOutcome(store.investors, store'.investors,
                                       last'.status, slug, EditBody(target),
                                       TRUE)
       /\ (last'.op = "deleteAllocation" /\ AuthorizedAndStored')
           => \A slug \in AllocationSlugs, target \in AllocationTargets :
                  DeleteAllocation(last'.cookies, slug, DeleteBody(target), "ok")
                  => AllocationOutcome(store.investors, store'.investors,
                                       last'.status, slug, DeleteBody(target),
                                       FALSE)]_vars

\* a delete succeeded and took the allocation with the id from the first
\* investor: the one without an id is left, and so is the second investor's
C22_Witness ==
    /\ last.op = "deleteAllocation" /\ last.status = 200
    /\ Len(store.investors) = 2
    /\ store.investors[1].allocations = <<LegacyAllocation>>
    /\ store.investors[2].allocations = <<LegacyAllocation>>

\* the investors of a portfolio response are those of the stored investors
\* array, with one holding for each stored allocation
ShowsStore(response, investors) ==
    /\ Len(response.investors) = Len(investors)
    /\ \A k \in DOMAIN investors :
           /\ response.investors[k].name = investors[k].name
           /\ Len(response.investors[k].holdings)
                  = Len(investors[k].allocations)
           /\ \A j \in DOMAIN investors[k].allocations :
                  response.investors[k].holdings[j].symbol
                      = ToUpperCase(investors[k].allocations[j].symbol)

\* C23: after an admin write (create/rename/delete investor; add/edit/delete
\* allocation) is acknowledged with success, the next GET /portfolio is
\* computed from the store state that includes that write.
C23_PortfolioReadsTheWrites ==
    [][(/\ pf.phase = "ready" /\ pf'.phase = "done"
        /\ last.op \in WriteOps /\ last.status = 200)
          => ShowsStore(pf'.response, store.investors)]_vars

\* the holding comes from an allocation with a positive persisted share
\* count and a positive amount
HasOwnCostBasis(h) ==
    /\ h.sharesFromFile # Nothing /\ Greater(h.sharesFromFile, R(0))
    /\ Greater(h.amountInvested, R(0))

\* C24: when a symbol's history is empty, the start price of an allocation
\* that has a positive persisted share count and amount is that allocation's
\* own amountInvested / shares, whatever the other allocations of the symbol
\* are; with no such cost basis the start price is unresolved.
C24_OwnCostBasis ==
    \A h \in DeliveredHoldings :
        HistoryOfHolding(h) = <<>>
        => h.startPrice = IF HasOwnCostBasis(h)
                          THEN DividedBy(h.amountInvested, h.sharesFromFile)
                          ELSE Nothing

\* the quote the portfolio holds for the symbol of a holding
QuoteOfHolding(h) == fetchQuote(pf.input.quote[h.symbol])

LiveQuoteIsPositive(h) ==
    /\ QuoteOfHolding(h) # Nothing
    /\ QuoteOfHolding(h).c # Nothing
    /\ Greater(QuoteOfHolding(h).c, R(0))

\* C25: a valued holding's currentPrice is the live quote price when that is
\* positive; otherwise the close of the most recent history point; otherwise
\* the start price; otherwise unresolved. A non-positive or missing quote
\* price is never used as the current price.
C25_CurrentPriceChain ==
    \A h \in DeliveredHoldings :
        IsValued(h) =>
            h.currentPrice =
                IF LiveQuoteIsPositive(h) THEN QuoteOfHolding(h).c
                ELSE IF HistoryOfHolding(h) # <<>>
                THEN HistoryOfHolding(h)[Len(HistoryOfHolding(h))].close
                ELSE h.startPrice

\* a valued holding quoted at 0 whose current price is the last close of its
\* history, which is neither 0 nor its start price
C25_Witness ==
    \E h \in DeliveredHoldings :
        /\ IsValued(h)
        /\ QuoteOfHolding(h) # Nothing /\ QuoteOfHolding(h).c = R(0)
        /\ Len(HistoryOfHolding(h)) >= 2
        /\ h.currentPrice = HistoryOfHolding(h)[Len(HistoryOfHolding(h))].close
        /\ h.currentPrice # R(0)
        /\ h.currentPrice # h.startPrice

\* the allocations the file holds under a name, in the order of the file
RECURSIVE AllocationsNamed(_, _)
AllocationsNamed(file, name) ==
    IF file = Nothing \/ file = <<>> THEN <<>>
    ELSE (IF Head(file).name = name THEN Head(file).allocations ELSE <<>>)
         \o AllocationsNamed(Tail(file), name)

\* invested, else amount, else 0
AmountOf(allocation) ==
    IF allocation.invested # Nothing THEN allocation.invested
    ELSE IF allocation.amount # Nothing THEN allocation.amount
    ELSE R(0)

\* one holding for each allocation of the investor, in their order, with the
\* symbol and the amount of the allocation
OneHoldingEach(v) ==
    LET allocations == AllocationsNamed(pf.input.file, v.name)
    IN  /\ Len(v.holdings) = Len(allocations)
        /\ \A j \in DOMAIN allocations :
               /\ v.holdings[j].symbol = ToUpperCase(allocations[j].symbol)
               /\ v.holdings[j].amountInvested = AmountOf(allocations[j])
               /\ v.holdings[j].sharesFromFile = allocations[j].shares

NoPositiveStartPrice(h) ==
    h.startPrice = Nothing \/ ~Greater(h.startPrice, R(0))

Unresolved(h) ==
    /\ h.shares = Nothing /\ h.currentValue = Nothing
    /\ h.change = Nothing /\ h.changePercent = Nothing
    /\ h.history = <<>>

\* C26: when an allocation has no positive persisted share count and no
\* positive start price, its holding reports shares, currentValue, change and
\* changePercent as null with an empty value series, still reports symbol and
\* amountInvested, and the investor aggregate counts it at its
\* amountInvested; every allocation yields exactly one holding, in
\* allocation order.
C26_UnresolvedHolding ==
    \A v \in DeliveredInvestors :
        /\ OneHoldingEach(v)
        /\ \A j \in DOMAIN v.holdings :
               (NoPositivePersistedShares(v.holdings[j])
                /\ NoPositiveStartPrice(v.holdings[j]))
               => /\ Unresolved(v.holdings[j])
                  /\ v.currentValue =
                         Plus(ExpectedCurrentValue(
                                  SubSeq(v.holdings, 1, j - 1)
                                  \o SubSeq(v.holdings, j + 1, Len(v.holdings))),
                              v.holdings[j].amountInvested)

\* an investor whose second holding has neither shares nor a start price and
\* a positive amount, behind a first holding that is valued
C26_Witness ==
    \E v \in DeliveredInvestors :
        /\ Len(v.holdings) = 2
        /\ IsValued(v.holdings[1])
        /\ v.holdings[1].currentValue # v.holdings[1].amountInvested
        /\ NoPositivePersistedShares(v.holdings[2])
        /\ NoPositiveStartPrice(v.holdings[2])
        /\ Greater(v.holdings[2].amountInvested, R(0))
        /\ v.holdings[2].symbol # v.holdings[1].symbol

\* the timestamps of the value series of the holdings
TimesOf(holdings) ==
    UNION {{holdings[j].history[i].time : i \in DOMAIN holdings[j].history} :
           j \in DOMAIN holdings}

\* the sum of the values of the points of one series at a time
RECURSIVE SeriesAt(_, _)
SeriesAt(series, time) ==
    IF series = <<>> THEN R(0)
    ELSE Plus(IF Head(series).time = time THEN Head(series).value ELSE R(0),
              SeriesAt(Tail(series), time))

\* the sum over the holdings of the values of their points at a time
RECURSIVE ValueAt(_, _)
ValueAt(holdings, time) ==
    IF holdings = <<>> THEN R(0)
    ELSE Plus(SeriesAt(Head(holdings).history, time),
              ValueAt(Tail(holdings), time))

HoldingsAt(holdings, time) ==
    {j \in DOMAIN holdings :
        \E i \in DOMAIN holdings[j].history :
            holdings[j].history[i].time = time}

\* C27: an investor's valueHistory has exactly one point for each distinct
\* timestamp of its holdings' value series, in strictly ascending time
\* order, and the value at each timestamp is the sum of the values of the
\* holdings' points with exactly that timestamp.
C27_ValueHistoryByTimestamp ==
    \A v \in DeliveredInvestors :
        /\ {v.valueHistory[k].time : k \in DOMAIN v.valueHistory}
               = TimesOf(v.holdings)
        /\ Len(v.valueHistory) = Cardinality(TimesOf(v.holdings))
        /\ \A k \in DOMAIN v.valueHistory :
               /\ k > 1 => v.valueHistory[k - 1].time < v.valueHistory[k].time
               /\ v.valueHistory[k].value
                      = ValueAt(v.holdings, v.valueHistory[k].time)

\* two holdings on different time grids: a timestamp that only the first
\* has, carrying its value alone, before one where both are summed
C27_Witness ==
    \E v \in DeliveredInvestors :
        /\ Len(v.valueHistory) = 2
        /\ HoldingsAt(v.holdings, v.valueHistory[1].time) = {1}
        /\ HoldingsAt(v.holdings, v.valueHistory[2].time) = {1, 2}
        /\ v.valueHistory[1].value = v.holdings[1].history[1].value
        /\ Greater(v.valueHistory[1].value, R(0))
        /\ v.valueHistory[2].value
               = Plus(v.holdings[1].history[2].value,
                      v.holdings[2].history[1].value)
        /\ Greater(v.holdings[1].history[2].value, R(0))


\* the quote call alone was good: the handler had a symbol and the API key,
\* the quote response was ok and its body is a quote with data
ValidQuoteFetched ==
    /\ QuoteAnswered
    /\ rt.input.symbol # <<>> /\ rt.input.apiKey
    /\ rt.input.quote.net = "ok"
    /\ IsOk(rt.input.quote.status)
    /\ rt.input.quote.body.c # Nothing
    /\ ~looksEmpty(rt.input.quote.body)

\* the profile call answered, with a non-2xx status or a body that does
\* not parse
ProfileAnsweredBadly ==
    /\ rt.input.profile.net = "ok"
    /\ ~IsOk(rt.input.profile.status) \/ ~rt.input.profile.json

\* the profile call failed: transport error, non-2xx status or a body that
\* does not parse
ProfileCallFailed ==
    rt.input.profile.net = "throws" \/ ProfileAnsweredBadly

\* the response is the quote, with null profile fields
QuoteWithNullProfile ==
    /\ rt.output.status = 200 /\ ~rt.output.error
    /\ rt.output.price = rt.input.quote.body.c
    /\ rt.output.name = Nothing
    /\ rt.output.rawProfile = Nothing

\* C28: a failure of the company-profile call (non-2xx status, unparsable
\* body, or transport error) never prevents GET /quote from returning an
\* otherwise valid quote: the quote is returned with null profile fields
\* instead of an error response.
C28_ProfileFailureKeepsQuote ==
    (ValidQuoteFetched /\ ProfileCallFailed) => QuoteWithNullProfile


\* the last request was a create or a rename that succeeded
NamedOrRenamed ==
    /\ last.op \in {"createInvestor", "renameInvestor"}
    /\ last.status = 200

\* C29: in every reachable store state, the slug returned by a successful
\* create or rename resolves, through findInvestorIndex as the rename, delete
\* and allocation endpoints use it, to the investor that was just created or
\* renamed and to no other investor.
C29_ReturnedSlugResolves ==
    NamedOrRenamed
    => LET index == findInvestorIndex(store.investors, last.slug)
       IN  /\ index # -1
           /\ store.investors[index].name = Trim(last.name)


\* the names of an investors array are pairwise distinct ignoring case
NamesDistinct(investors) ==
    \A i, j \in DOMAIN investors :
        i # j => ToLowerCase(investors[i].name) # ToLowerCase(investors[j].name)

\* C30: starting from a single investors document whose names are trimmed and
\* pairwise distinct ignoring case, the names stay pairwise distinct ignoring
\* case in every reachable state under any interleaving of concurrent create,
\* rename and delete requests.
C30_NamesStayDistinct ==
    /\ NamesDistinct(store.investors)
    /\ \A i \in DOMAIN store.investors :
           store.investors[i].name = Trim(store.investors[i].name)

\* two requests that bring in names equal ignoring case, a create and a
\* rename or two creates, both read the document before either wrote, both
\* were acknowledged, and a third request wrote as well
C30_Witness ==
    /\ \A p \in DOMAIN race.proc : race.proc[p].pc = "done"
    /\ Len(race.order) >= 5
    /\ race.order[1][2] = "read" /\ race.order[2][2] = "read"
    /\ LET first == race.order[1][1]
           second == race.order[2][1]
       IN  /\ first # second
           /\ race.request[first].op = "createInvestor"
           /\ race.request[second].op \in {"createInvestor", "renameInvestor"}
           /\ ToLowerCase(Trim(race.request[first].name))
                  = ToLowerCase(Trim(race.request[second].name))
           /\ race.proc[first].status = 200
           /\ race.proc[second].status = 200
    /\ Len(store.investors) >= 2

====
